---- MODULE Spec2Model ----
(***************************************************************************)
(* A model of the Koto runtime core: the tree-walking Runtime of           *)
(* src/src/koto/src/runtime.rs (value stack, call stack, global map,       *)
(* evaluate and call_function) and the Value operations of                 *)
(* src/core/runtime/src/value.rs.                                          *)
(*                                                                         *)
(* Every Rust function of the Runtime is an operator that takes the        *)
(* runtime state s and returns the state after the call.  A RuntimeResult  *)
(* of Err(e) is the field s.err # "" ; the `?` operator is                 *)
(* IF s.err # "" THEN s ELSE ...                                           *)
(*                                                                         *)
(* Lists are Rc<Vec<Value>> and are only written through Rc::make_mut, so  *)
(* a List behaves as a value: a write through one holder copies the Vec    *)
(* when another holder exists.  Maps are Rc<RefCell<ValueMap>>, written    *)
(* through Rc::make_mut at the last step of a lookup, so a Map reached by  *)
(* a lookup of one name behaves as a value too.  The scripts of this model *)
(* assign through lookups of at most one map step.                         *)
(***************************************************************************)
EXTENDS Integers, Sequences, FiniteSets, TLC

\* Number of Runtime::run calls on one Runtime.
MaxRuns == 2

\* the largest bound of a range literal in the scripts about ranges
MaxEnd == 2

\* the largest argument of the recursive function
MaxFib == 2

\* number of next calls on one generator iterator
MaxNexts == 5

\* instructions a generator runs between two yields, at most
MaxSteps == 8

VARIABLES
    float_cast,   \* how the build converts an out-of-range f64 to usize
    global,       \* Runtime.global: the global ValueMap
    call_stack,   \* Runtime.call_stack
    value_stack,  \* Runtime.value_stack
    result,       \* what the last Runtime::run returned
    log,          \* history: the events of the last run, in order
    calls,        \* history: one record per call_function on a Function
    indexings,    \* history: one record per Number index of a List
    map_sets,     \* history: one record per set_map_value
    script,       \* history: the script of the last run
    runs,         \* number of runs so far
    heap,         \* the cells behind the shared handles (PtrMut) of core Values
    original,     \* a core Value
    copied,       \* None, or Some(original.deep_copy())
    snapshot,     \* history: what original held when it was copied
    touched,      \* history: the sides written since the copy
    subject,      \* the input of a method or operator that is applied once
    answer,       \* None, or Some(what was returned for subject)
    caller_vm,    \* the Vm that calls a Generator: its registers and frames
    generator_vm, \* None, or Some(the child Vm spawned for the Generator)
    outputs       \* history: what every next on the iterator returned

vars == <<float_cast, global, call_stack, value_stack, result, log, calls,
          indexings, map_sets, script, runs,
          heap, original, copied, snapshot, touched, subject, answer,
          caller_vm, generator_vm, outputs>>

runtimeVars == <<float_cast, global, call_stack, value_stack, result, log,
                 calls, indexings, map_sets, script, runs>>
valueVars == <<heap, original, copied, snapshot, touched>>
queryVars == <<subject, answer>>
vmVars == <<caller_vm, generator_vm, outputs>>

----------------------------------------------------------------------------
(* Values of the runtime *)

Empty == [t |-> "Empty"]
VBool(b) == [t |-> "Bool", b |-> b]
\* An f64: fl = "fin" is the integer n; "inf", "-inf" and "nan" are the IEEE
\* specials (n = 0); "frac" is a finite non-integer whose integer part is n.
VFloat(n, fl) == [t |-> "Number", n |-> n, fl |-> fl]
VNumber(n) == VFloat(n, "fin")
VStr(str) == [t |-> "Str", s |-> str]
VList(l) == [t |-> "List", l |-> l]
VRange(min, max) == [t |-> "Range", min |-> min, max |-> max]
VMap(m) == [t |-> "Map", m |-> m]
VFunction(f) == [t |-> "Function", args |-> f.args, body |-> f.body]
VExternalFunction(name) == [t |-> "ExternalFunction", name |-> name]
VFor(f) == [t |-> "For", f |-> f]

\* What a read of a missing stack slot gives (the Rust code would panic).
Missing == [t |-> "Missing"]

\* Option<T>: None is <<>>, Some(v) is <<v>>.
None == <<>>
Some(v) == <<v>>

\* no Generator is in use
NoVm ==
    /\ caller_vm = [registers |-> <<>>, frames |-> 0]
    /\ generator_vm = None
    /\ outputs = <<>>

\* HashMap::insert
MapInsert(m, key, v) ==
    [x \in DOMAIN m \cup {key} |-> IF x = key THEN v ELSE m[x]]

EmptyMap == [x \in {} |-> Empty]

Front(seq) == SubSeq(seq, 1, Len(seq) - 1)

----------------------------------------------------------------------------
(* ValueStack: a Vec of values and the start index of every frame *)

VsStartFrame(s) ==
    [s EXCEPT !.vs.frames = Append(@, Len(s.vs.values))]

VsFrameStart(s) ==
    IF s.vs.frames = <<>> THEN 0 ELSE s.vs.frames[Len(s.vs.frames)]

VsPopFrame(s) ==
    [s EXCEPT !.vs.values = SubSeq(@, 1, VsFrameStart(s)),
              !.vs.frames = IF @ = <<>> THEN @ ELSE Front(@)]

VsPopFrameAndKeepResults(s) ==
    [s EXCEPT !.vs.frames = IF @ = <<>> THEN @ ELSE Front(@)]

VsPush(s, v) == [s EXCEPT !.vs.values = Append(@, v)]

VsValues(s) == SubSeq(s.vs.values, VsFrameStart(s) + 1, Len(s.vs.values))

VsValueCount(s) == Len(VsValues(s))

VsValue(s) == IF VsValues(s) = <<>> THEN Missing ELSE VsValues(s)[1]

VsFrameCount(s) == Len(s.vs.frames)

----------------------------------------------------------------------------
(* CallStack: committed frames of (id, value) entries, and the entries     *)
(* pushed for the frame that is being built                                *)

CsFrame(s) == Len(s.cs.frames)

CsPush(s, id, v) ==
    [s EXCEPT !.cs.pending = Append(@, [name |-> id, value |-> v]),
              !.log = Append(@, [e |-> "push", what |-> id])]

CsCommit(s) ==
    [s EXCEPT !.cs.frames = Append(@, s.cs.pending),
              !.cs.pending = <<>>]

CsCancel(s) == [s EXCEPT !.cs.pending = <<>>]

\* call_function without call_stack.pop_frame()
CsPopFrame_KeepsFrame(s) == s

CsPopFrame(s) ==
    [s EXCEPT !.cs.frames = IF @ = <<>> THEN @ ELSE Front(@)]

CsTop(s) == s.cs.frames[Len(s.cs.frames)]

\* position of the first entry of the top frame named id, 0 when none
CsFind(s, id) ==
    IF s.cs.frames = <<>> THEN 0
    ELSE LET top == CsTop(s)
             hits == {i \in 1..Len(top) : top[i].name = id}
         IN  IF hits = {} THEN 0
             ELSE CHOOSE i \in hits : \A j \in hits : i <= j

CsGet(s, id) ==
    IF CsFind(s, id) = 0 THEN None ELSE Some(CsTop(s)[CsFind(s, id)].value)

CsSet(s, id, v) ==
    [s EXCEPT !.cs.frames[Len(s.cs.frames)][CsFind(s, id)].value = v]

CsExtend(s, id, v) ==
    [s EXCEPT !.cs.frames[Len(s.cs.frames)] =
                  Append(@, [name |-> id, value |-> v])]

----------------------------------------------------------------------------
(* Errors and the event history *)

Ok(s) == s.err = ""

Note(s, e, what) == [s EXCEPT !.log = Append(@, [e |-> e, what |-> what])]

\* runtime_error!(node, message): the first error of a run is recorded
RuntimeError(s, message) ==
    [Note(s, "err", message) EXCEPT !.err = message]

----------------------------------------------------------------------------
(* Identifiers and lookups *)

\* LookupId::as_slice is the lookup itself; map_slice drops the last id.
MapSlice(lookup) == Front(lookup)

RECURSIVE MapWalk(_, _, _)
\* get_value, the loop over lookup_id.0[1..]
MapWalk(found, lookup, i) ==
    IF i > Len(lookup) \/ found = None THEN found
    ELSE MapWalk(IF found[1].t = "Map" /\ lookup[i] \in DOMAIN found[1].m
                 THEN Some(found[1].m[lookup[i]])
                 ELSE None,
                 lookup, i + 1)

ValueOrMapLookup(value, lookup) ==
    IF Len(lookup) = 1 THEN value
    ELSE IF value # None THEN MapWalk(value, lookup, 2)
    ELSE None

GlobalGet(s, id) ==
    IF id \in DOMAIN s.global THEN Some(s.global[id]) ELSE None

GetValue(s, lookup) ==
    LET first == lookup[1]
        local == IF CsFrame(s) > 0
                 THEN ValueOrMapLookup(CsGet(s, first), lookup)
                 ELSE None
    IN  IF local # None THEN local
        ELSE ValueOrMapLookup(GlobalGet(s, first), lookup)

\* set_value without the test of call_stack.frame(): always the global map
SetValue_AlwaysGlobal(s0, id, value, isGlobal) ==
    [Note(s0, "set", id) EXCEPT !.global = MapInsert(@, id, value)]

SetValue(s0, id, value, isGlobal) ==
    LET s == Note(s0, "set", id)
    IN  IF CsFrame(s) = 0 \/ isGlobal
        THEN [s EXCEPT !.global = MapInsert(@, id, value)]
        ELSE IF CsGet(s, id) # None
             THEN CsSet(s, id, value)
             ELSE CsExtend(s, id, value)

----------------------------------------------------------------------------
(* Writes through visit_value_mut.  A visitor is the closure of            *)
(* set_map_value or of set_list_value, with the values it has captured.    *)

MapVisitor(key, value) ==
    [vk |-> "map", key |-> key, index |-> Empty, value |-> value]

ListVisitor(index, value) ==
    [vk |-> "list", key |-> "", index |-> index, value |-> value]

\* the usize an out-of-range f64 becomes when the cast does not saturate to 0
UsizeWrapped == 2147483647

\* `i as usize` for the f64 x: truncation when x is in range; below zero (and
\* for NaN) 0 in a build with saturating casts, an out-of-range usize in a
\* build where the cast is an unchecked machine conversion
AsUsize(x, cast) ==
    CASE x.fl = "inf" -> UsizeWrapped
      [] x.fl = "-inf" \/ x.fl = "nan" \/ x.n < 0 ->
            IF cast = "saturate" THEN 0 ELSE UsizeWrapped
      [] OTHER -> x.n

\* `n as isize` for the f64 x
AsIsize(x) ==
    CASE x.fl = "inf" -> UsizeWrapped
      [] x.fl = "-inf" -> -UsizeWrapped
      [] x.fl = "nan" -> 0
      [] OTHER -> x.n

Replace(l, i, v) == [l EXCEPT ![i] = v]

\* set_list_value, Number index: the closure body for a List
ListSetNumber(data, n, value, cast) ==
    LET i == AsUsize(n, cast)
    IN  IF i < Len(data)
        THEN [err |-> "", val |-> VList(Replace(data, i + 1, value))]
        ELSE [err |-> "Index out of bounds", val |-> VList(data)]

\* set_list_value, Range index: the closure body for a List
ListSetRange(data, min, max, value) ==
    IF min < 0 \/ max < 0
    THEN [err |-> "Negative indices", val |-> VList(data)]
    ELSE IF min >= Len(data) \/ max > Len(data)
    THEN [err |-> "Index out of bounds", val |-> VList(data)]
    ELSE [err |-> "",
          val |-> VList([i \in 1..Len(data) |->
                           IF i > min /\ i <= max THEN value ELSE data[i]])]

\* set_map_value that builds a new map holding only the assigned key
MapSetValue_DropsOthers(map, key, value) ==
    [err |-> "", val |-> VMap(MapInsert(EmptyMap, key, value))]

\* set_map_value: the closure body for a Map
MapSetValue(map, key, value) ==
    [err |-> "", val |-> VMap(MapInsert(map, key, value))]

ApplyVisitor(vis, val, cast) ==
    IF vis.vk = "map"
    THEN IF val.t = "Map"
         THEN MapSetValue(val.m, vis.key, vis.value)
         ELSE [err |-> "Expected Map", val |-> val]
    ELSE IF val.t = "List"
         THEN CASE vis.index.t = "Number" ->
                     ListSetNumber(val.l, vis.index, vis.value, cast)
                [] vis.index.t = "Range" ->
                     ListSetRange(val.l, vis.index.min, vis.index.max,
                                  vis.value)
                [] OTHER ->
                     [err |-> "Indexing needs a number or a range",
                      val |-> val]
         ELSE [err |-> "Indexing is only supported for Lists", val |-> val]

RECURSIVE VisitMut(_, _, _, _, _)
\* ValueMap::visit_mut: walks lookup[i..] inside the map
VisitMut(map, lookup, i, vis, cast) ==
    IF lookup[i] \notin DOMAIN map
    THEN [found |-> FALSE, err |-> "", val |-> VMap(map)]
    ELSE IF i = Len(lookup)
    THEN LET r == ApplyVisitor(vis, map[lookup[i]], cast)
         IN  [found |-> TRUE, err |-> r.err,
              val |-> VMap(MapInsert(map, lookup[i], r.val))]
    ELSE IF map[lookup[i]].t = "Map"
    THEN LET r == VisitMut(map[lookup[i]].m, lookup, i + 1, vis, cast)
         IN  [found |-> r.found, err |-> r.err,
              val |-> VMap(MapInsert(map, lookup[i], r.val))]
    ELSE [found |-> FALSE, err |-> "Expected Map", val |-> VMap(map)]

\* the macro value_or_map_lookup of visit_value_mut, for a slot that holds
\* `value`: done = the function returns here, found/some = the pair
VisitSlot(value, lookup, vis, cast) ==
    IF Len(lookup) = 1
    THEN LET r == ApplyVisitor(vis, value, cast)
         IN  [done |-> TRUE, found |-> TRUE, some |-> TRUE,
              err |-> r.err, val |-> r.val]
    ELSE IF value.t = "Map"
    THEN LET r == VisitMut(value.m, lookup, 2, vis, cast)
         IN  [done |-> FALSE, found |-> r.found, some |-> TRUE,
              err |-> r.err, val |-> r.val]
    ELSE [done |-> FALSE, found |-> FALSE, some |-> FALSE,
          err |-> "", val |-> value]

Fail(s, message) == IF message = "" THEN s ELSE RuntimeError(s, message)

VisitGlobal(s, lookup, vis) ==
    LET first == lookup[1]
    IN  IF first \notin DOMAIN s.global
        THEN RuntimeError(s, "not found")
        ELSE LET r == VisitSlot(s.global[first], lookup, vis, s.cast)
             IN  IF ~r.done /\ ~r.found /\ ~r.some
                 THEN RuntimeError(s, "not found")
                 ELSE Fail([s EXCEPT !.global[first] = r.val], r.err)

VisitValueMut(s, lookup, vis) ==
    LET first == lookup[1]
    IN  IF CsFrame(s) > 0 /\ CsGet(s, first) # None
        THEN LET r == VisitSlot(CsGet(s, first)[1], lookup, vis, s.cast)
             IN  IF r.done \/ r.found
                 THEN Fail(CsSet(s, first, r.val), r.err)
                 ELSE VisitGlobal(s, lookup, vis)
        ELSE VisitGlobal(s, lookup, vis)

\* history: set_map_value took the Runtime from s to s1
MapSetRecord(s, s1, id, value) ==
    [s1 EXCEPT !.map_sets =
        Append(@, [id |-> id, value |-> value, err |-> s1.err,
                   before |-> GetValue(s, MapSlice(id)),
                   after |-> GetValue(s1, MapSlice(id)),
                   readback |-> GetValue(s1, id),
                   same |-> s1.global = s.global /\ s1.cs = s.cs])]

SetMapValue(s, id, value) ==
    MapSetRecord(s,
                 VisitValueMut(s, MapSlice(id),
                               MapVisitor(id[Len(id)], value)),
                 id, value)

----------------------------------------------------------------------------
(* External functions registered in the global map *)

\* format!("{}", v): the text of a value inside a message
Shown(v) == [shown |-> v]

\* the literal text of a format string
Literal(str) == [text |-> str]

RECURSIVE AssertFrom(_, _)
\* the closure of "assert": the loop over args; `at` is the argument the
\* closure returned at, `message` the parts of the error message
AssertFrom(args, i) ==
    IF i > Len(args) THEN [err |-> "", v |-> Empty, at |-> 0,
                           message |-> <<>>]
    ELSE IF args[i].t = "Bool"
    THEN IF ~args[i].b
         THEN [err |-> "Assertion failed", v |-> Empty, at |-> i,
               message |-> <<Literal("Assertion failed")>>]
         ELSE AssertFrom(args, i + 1)
    ELSE [err |-> "assert only expects booleans", v |-> Empty, at |-> i,
          message |->
              <<Literal("assert only expects booleans as arguments, found '"),
                Shown(args[i].t), Literal("'")>>]

\* args[0] == args[1]: an f64 NaN is equal to nothing, itself included;
\* args[0] != args[1] is the negation of it
ValueEquals(a, b) ==
    IF a.t = "Number" /\ b.t = "Number" /\ (a.fl = "nan" \/ b.fl = "nan")
    THEN FALSE
    ELSE a = b

\* assert_eq that compares the first two of any number of arguments
AssertEq_AnyCount(args) ==
    IF Len(args) < 2
    THEN [err |-> "assert_eq expects two arguments", v |-> Empty,
          message |-> <<Literal("assert_eq expects two arguments, found "),
                        Shown(Len(args))>>]
    ELSE IF args[1] = args[2] THEN [err |-> "", v |-> Empty, message |-> <<>>]
    ELSE [err |-> "Assertion failed, not equal", v |-> Empty,
          message |-> <<Literal("Assertion failed, '"), Shown(args[1]),
                        Literal("' is not equal to '"), Shown(args[2]),
                        Literal("'")>>]

\* the closure of "assert_eq"
AssertEq(args) ==
    IF Len(args) # 2
    THEN [err |-> "assert_eq expects two arguments", v |-> Empty,
          message |-> <<Literal("assert_eq expects two arguments, found "),
                        Shown(Len(args))>>]
    ELSE IF ValueEquals(args[1], args[2]) THEN [err |-> "", v |-> Empty, message |-> <<>>]
    ELSE [err |-> "Assertion failed, not equal", v |-> Empty,
          message |-> <<Literal("Assertion failed, '"), Shown(args[1]),
                        Literal("' is not equal to '"), Shown(args[2]),
                        Literal("'")>>]

\* assert_ne that succeeds on the arguments assert_eq succeeds on
AssertNe_WhenEqual(args) ==
    IF Len(args) # 2
    THEN [err |-> "assert_ne expects two arguments", v |-> Empty,
          message |-> <<Literal("assert_ne expects two arguments, found "),
                        Shown(Len(args))>>]
    ELSE IF ValueEquals(args[1], args[2])
    THEN [err |-> "", v |-> Empty, message |-> <<>>]
    ELSE [err |-> "Assertion failed, equal", v |-> Empty,
          message |-> <<Literal("Assertion failed, '"), Shown(args[1]),
                        Literal("' should not be equal to '"), Shown(args[2]),
                        Literal("'")>>]

\* the closure of "assert_ne"
AssertNe(args) ==
    IF Len(args) # 2
    THEN [err |-> "assert_ne expects two arguments", v |-> Empty,
          message |-> <<Literal("assert_ne expects two arguments, found "),
                        Shown(Len(args))>>]
    ELSE IF ~ValueEquals(args[1], args[2])
    THEN [err |-> "", v |-> Empty, message |-> <<>>]
    ELSE [err |-> "Assertion failed, equal", v |-> Empty,
          message |-> <<Literal("Assertion failed, '"), Shown(args[1]),
                        Literal("' should not be equal to '"), Shown(args[2]),
                        Literal("'")>>]

\* the closure of "print"
Print0(args) == [err |-> "", v |-> Empty]

ExternalCall(name, args) ==
    CASE name = "assert" -> AssertFrom(args, 1)
      [] name = "assert_eq" -> AssertEq(args)
      [] name = "assert_ne" -> AssertNe(args)
      [] OTHER -> Print0(args)

Builtins ==
    [x \in {"assert", "assert_eq", "print"} |-> VExternalFunction(x)]

----------------------------------------------------------------------------
(* The parser's view of a node *)

\* koto_parser::is_single_value_node
IsSingleValueNode(node) == node.k \in {"Id", "Bool", "Number", "Str"}

\* ValueIterator::new(v) for a List or a Range: the values it yields
IterValues(v) ==
    IF v.t = "List" THEN v.l
    ELSE [i \in 1..(v.max - v.min) |-> VNumber(v.min + i - 1)]

Abs(n) == IF n < 0 THEN -n ELSE n

\* integer division that truncates toward zero
TruncDiv(a, b) ==
    IF (a >= 0) = (b > 0) THEN Abs(a) \div Abs(b) ELSE -(Abs(a) \div Abs(b))

IsNan(x) == x.fl = "nan"
IsInf(x) == x.fl \in {"inf", "-inf"}
Sign(x) ==
    CASE x.fl = "inf" -> 1
      [] x.fl = "-inf" -> -1
      [] OTHER -> IF x.n > 0 THEN 1 ELSE IF x.n < 0 THEN -1 ELSE 0
Inf(sign) == IF sign < 0 THEN VFloat(0, "-inf") ELSE VFloat(0, "inf")
Nan == VFloat(0, "nan")
Negated(x) ==
    CASE x.fl = "inf" -> Inf(-1)
      [] x.fl = "-inf" -> Inf(1)
      [] OTHER -> VFloat(-x.n, x.fl)
Fin(a, b, n) ==
    VFloat(n, IF a.fl = "frac" \/ b.fl = "frac" THEN "frac" ELSE "fin")

\* f64 addition
FAdd(a, b) ==
    IF IsNan(a) \/ IsNan(b) THEN Nan
    ELSE IF IsInf(a) /\ IsInf(b) THEN IF a.fl = b.fl THEN a ELSE Nan
    ELSE IF IsInf(a) THEN a
    ELSE IF IsInf(b) THEN b
    ELSE Fin(a, b, a.n + b.n)

\* f64 multiplication
FMul(a, b) ==
    IF IsNan(a) \/ IsNan(b) THEN Nan
    ELSE IF IsInf(a) \/ IsInf(b)
    THEN IF Sign(a) = 0 \/ Sign(b) = 0 THEN Nan ELSE Inf(Sign(a) * Sign(b))
    ELSE Fin(a, b, a.n * b.n)

\* f64 division: a zero divisor gives an infinity or NaN, never an error
FDiv(a, b) ==
    IF IsNan(a) \/ IsNan(b) THEN Nan
    ELSE IF IsInf(a) THEN IF IsInf(b) THEN Nan
                          ELSE Inf(Sign(a) * (IF Sign(b) < 0 THEN -1 ELSE 1))
    ELSE IF IsInf(b) THEN VNumber(0)
    ELSE IF b.n = 0 /\ b.fl = "fin"
    THEN IF Sign(a) = 0 /\ a.fl = "fin" THEN Nan ELSE Inf(Sign(a))
    ELSE IF b.n = 0 THEN Fin(a, b, a.n)
    ELSE VFloat(TruncDiv(a.n, b.n),
                IF a.fl = "fin" /\ b.fl = "fin"
                   /\ TruncDiv(a.n, b.n) * b.n = a.n
                THEN "fin" ELSE "frac")

\* f64 remainder: the sign follows the dividend, x % 0 is NaN
FRem(a, b) ==
    IF IsNan(a) \/ IsNan(b) \/ IsInf(a) THEN Nan
    ELSE IF IsInf(b) THEN a
    ELSE IF b.n = 0 THEN IF b.fl = "fin" THEN Nan ELSE Fin(a, b, a.n)
    ELSE Fin(a, b, a.n - b.n * TruncDiv(a.n, b.n))

\* f64 `<`
FLess(a, b) ==
    IF IsNan(a) \/ IsNan(b) THEN FALSE
    ELSE IF IsInf(a) \/ IsInf(b)
    THEN a.fl # b.fl /\ (a.fl = "-inf" \/ b.fl = "inf")
    ELSE a.n < b.n

\* f64 `==`
FEq(a, b) == ~IsNan(a) /\ ~IsNan(b) /\ a = b

NumberOp(op, a, b) ==
    CASE op = "Add" -> [err |-> "", v |-> FAdd(a, b)]
      [] op = "Subtract" -> [err |-> "", v |-> FAdd(a, Negated(b))]
      [] op = "Multiply" -> [err |-> "", v |-> FMul(a, b)]
      [] op = "Divide" -> [err |-> "", v |-> FDiv(a, b)]
      [] op = "Modulo" -> [err |-> "", v |-> FRem(a, b)]
      [] op = "Less" -> [err |-> "", v |-> VBool(FLess(a, b))]
      [] op = "LessOrEqual" ->
            [err |-> "", v |-> VBool(FLess(a, b) \/ FEq(a, b))]
      [] op = "Greater" -> [err |-> "", v |-> VBool(FLess(b, a))]
      [] op = "GreaterOrEqual" ->
            [err |-> "", v |-> VBool(FLess(b, a) \/ FEq(a, b))]
      [] OTHER -> [err |-> "Unable to perform operation", v |-> Empty]

BoolOp(op, a, b) ==
    CASE op = "And" -> [err |-> "", v |-> VBool(a.b /\ b.b)]
      [] op = "Or" -> [err |-> "", v |-> VBool(a.b \/ b.b)]
      [] OTHER -> [err |-> "Unable to perform operation", v |-> Empty]

\* the binary operators of Node::Op on two evaluated operands
BinaryOp(op, a, b) ==
    CASE op = "Equal" -> [err |-> "", v |-> VBool(a = b)]
      [] op = "NotEqual" -> [err |-> "", v |-> VBool(a # b)]
      [] a.t = "Number" /\ b.t = "Number" -> NumberOp(op, a, b)
      [] a.t = "Bool" /\ b.t = "Bool" -> BoolOp(op, a, b)
      [] a.t = "List" /\ b.t = "List" /\ op = "Add" ->
            [err |-> "", v |-> VList(a.l \o b.l)]
      [] a.t = "Map" /\ b.t = "Map" /\ op = "Add" ->
            [err |-> "",
             v |-> VMap([x \in DOMAIN a.m \cup DOMAIN b.m |->
                           IF x \in DOMAIN b.m THEN b.m[x] ELSE a.m[x]])]
      [] OTHER -> [err |-> "Unable to perform operation", v |-> Empty]

----------------------------------------------------------------------------
(* Runtime: the evaluator *)

\* self.method(args...) on the Runtime in state s: every call of one method
\* of the Runtime by another goes through Self
RECURSIVE Self(_, _, _)

RECURSIVE EvaluateBlockFrom(_, _, _), EvaluateExpressionsFrom(_, _, _),
          EvaluateMapEntries(_, _, _, _), ForIterations(_, _, _, _),
          CallArguments(_, _, _, _, _), MultiRangeBody(_, _, _, _),
          MultiRangeIterations(_, _, _, _), EvaluateRanges(_, _, _, _)

\* evaluate_block without the `?` after evaluate_and_expand: the block goes
\* on after an expression has failed
EvaluateBlockFrom_IgnoresError(block, i, s) ==
    IF i > Len(block) THEN s
    ELSE IF i < Len(block)
    THEN EvaluateBlockFrom(block, i + 1,
                           VsPopFrame(Self("EvaluateAndExpand",
                                           <<block[i]>>, s)))
    ELSE LET s1 == Self("EvaluateAndCapture", <<block[i]>>, s)
         IN  IF ~Ok(s1) THEN s1
             ELSE EvaluateBlockFrom(block, i + 1,
                                    VsPopFrameAndKeepResults(s1))

\* evaluate_block: the loop from expression i on
EvaluateBlockFrom(block, i, s) ==
    IF i > Len(block) THEN s
    ELSE IF i < Len(block)
    THEN LET s1 == Self("EvaluateAndExpand", <<block[i]>>, s)
         IN  IF ~Ok(s1) THEN s1
             ELSE EvaluateBlockFrom(block, i + 1, VsPopFrame(s1))
    ELSE LET s1 == Self("EvaluateAndCapture", <<block[i]>>, s)
         IN  IF ~Ok(s1) THEN s1
             ELSE EvaluateBlockFrom(block, i + 1,
                                    VsPopFrameAndKeepResults(s1))

EvaluateBlock(block, s) == EvaluateBlockFrom(block, 1, VsStartFrame(s))

\* evaluate_expressions: the loop from expression i on (both branches of
\* the loop body end in pop_frame_and_keep_results)
EvaluateExpressionsFrom(expressions, i, s) ==
    IF i > Len(expressions) THEN s
    ELSE LET s1 == IF IsSingleValueNode(expressions[i])
                   THEN Self("Evaluate", <<expressions[i]>>, s)
                   ELSE Self("EvaluateAndCapture", <<expressions[i]>>, s)
         IN  IF ~Ok(s1) THEN s1
             ELSE EvaluateExpressionsFrom(expressions, i + 1,
                                          VsPopFrameAndKeepResults(s1))

EvaluateExpressions(expressions, s) ==
    EvaluateExpressionsFrom(expressions, 1, VsStartFrame(s))

\* evaluate_and_capture, the values of a list capture
InvalidInCapture(values) ==
    \E i \in 1..Len(values) : values[i].t \in {"For", "Range"}

EvaluateAndCapture(expression, s0) ==
    LET s == VsStartFrame(s0)
    IN  IF IsSingleValueNode(expression)
        THEN LET s1 == Self("Evaluate", <<expression>>, s)
             IN  IF ~Ok(s1) THEN s1 ELSE VsPopFrameAndKeepResults(s1)
        ELSE LET s1 == Self("EvaluateAndExpand", <<expression>>, s)
             IN  IF ~Ok(s1) THEN s1
                 ELSE CASE VsValueCount(s1) = 0 ->
                             VsPush(VsPopFrame(s1), Empty)
                        [] VsValueCount(s1) = 1 ->
                             VsPopFrameAndKeepResults(s1)
                        [] OTHER ->
                             IF InvalidInCapture(VsValues(s1))
                             THEN RuntimeError(s1,
                                      "Invalid value found in list capture")
                             ELSE VsPush(VsPopFrame(s1),
                                         VList(VsValues(s1)))

RECURSIVE PushNumbers(_, _, _)
\* the expansion with `for i in min..=max`
PushNumbers_Inclusive(s, i, max) ==
    IF i > max THEN s ELSE PushNumbers(VsPush(s, VNumber(i)), i + 1, max)

\* evaluate_and_expand: for i in min..max { push(Number(i)) }
PushNumbers(s, i, max) ==
    IF i >= max THEN s ELSE PushNumbers(VsPush(s, VNumber(i)), i + 1, max)

EvaluateAndExpand(expression, s0) ==
    LET s  == VsStartFrame(s0)
        s1 == Self("Evaluate", <<expression>>, s)
    IN  IF ~Ok(s1) THEN s1
        ELSE IF Len(VsValues(s1)) = 1
                /\ VsValue(s1).t \in {"For", "Range"}
        THEN LET value == VsValue(s1)
                 s2 == VsPopFrame(s1)
             IN  IF value.t = "For"
                 THEN LET s3 == Self("RunForLoop", <<value>>, s2)
                      IN  IF ~Ok(s3) THEN s3
                          ELSE IF VsValueCount(s3) = 0
                          THEN VsPush(VsPopFrame(s3), Empty)
                          ELSE VsPopFrameAndKeepResults(s3)
                 ELSE PushNumbers(s2, value.min, value.max)
        ELSE VsPopFrameAndKeepResults(s1)

\* Node::Map: the loop over entries from entry i on, map = the HashMap so far
EvaluateMapEntries(entries, i, map, s) ==
    IF i > Len(entries) THEN VsPush(s, VMap(map))
    ELSE LET s1 == Self("EvaluateAndCapture", <<entries[i].node>>, s)
         IN  IF ~Ok(s1) THEN s1
             ELSE EvaluateMapEntries(entries, i + 1,
                                     MapInsert(map, entries[i].name,
                                               VsValue(s1)),
                                     VsPopFrame(s1))

\* Node::Range
EvaluateRange(node, s) ==
    LET s1 == Self("Evaluate", <<node.lo>>, s)
    IN  IF ~Ok(s1) THEN s1
        ELSE LET min == VsValue(s1)
                 s2  == Self("Evaluate", <<node.hi>>, VsPopFrame(s1))
             IN  IF ~Ok(s2) THEN s2
                 ELSE LET max == VsValue(s2)
                          s3  == VsPopFrame(s2)
                      IN  IF min.t = "Number" /\ max.t = "Number"
                          THEN LET imin == AsIsize(min)
                                   imax == IF node.inclusive
                                           THEN AsIsize(max) + 1
                                           ELSE AsIsize(max)
                               IN  IF imin <= imax
                                   THEN VsPush(s3, VRange(imin, imax))
                                   ELSE RuntimeError(s3, "Invalid range")
                          ELSE RuntimeError(s3,
                                   "Expected numbers for range bounds")

\* what the history records when the right operand of an Op is evaluated
RhsNote(op, a) ==
    IF a.t = "Bool" /\ op = "And"
    THEN IF a.b THEN "And:true" ELSE "And:false"
    ELSE IF a.t = "Bool" /\ op = "Or"
    THEN IF a.b THEN "Or:true" ELSE "Or:false"
    ELSE op

\* Node::Op
EvaluateOp(node, s) ==
    LET s1 == Self("Evaluate", <<node.lhs>>, s)
    IN  IF ~Ok(s1) THEN s1
        ELSE LET a  == VsValue(s1)
                 s2 == Self("Evaluate", <<node.rhs>>,
                            Note(VsPopFrame(s1), "rhs", RhsNote(node.op, a)))
             IN  IF ~Ok(s2) THEN s2
                 ELSE LET b  == VsValue(s2)
                          s3 == VsPopFrame(s2)
                          r  == BinaryOp(node.op, a, b)
                      IN  IF r.err # "" THEN RuntimeError(s3, r.err)
                          ELSE VsPush(s3, r.v)

\* Node::If
EvaluateIf(node, s) ==
    LET s1 == Self("Evaluate", <<node.condition>>, s)
    IN  IF ~Ok(s1) THEN s1
        ELSE LET maybe_bool == VsValue(s1)
                 s2 == VsPopFrame(s1)
                 elsePart(sx) ==
                     IF node.else_node # None
                     THEN LET s5 == Self("Evaluate", <<node.else_node[1]>>, sx)
                          IN  IF ~Ok(s5) THEN s5
                              ELSE VsPopFrameAndKeepResults(s5)
                     ELSE sx
             IN  IF maybe_bool.t # "Bool"
                 THEN RuntimeError(s2, "Expected bool in if statement")
                 ELSE IF maybe_bool.b
                 THEN LET s3 == Self("Evaluate", <<node.then_node>>, s2)
                      IN  IF ~Ok(s3) THEN s3
                          ELSE VsPopFrameAndKeepResults(s3)
                 ELSE IF node.else_if_condition # None
                 THEN LET s3 == Self("Evaluate",
                                     <<node.else_if_condition[1]>>, s2)
                      IN  IF ~Ok(s3) THEN s3
                          ELSE LET else_bool == VsValue(s3)
                                   s4 == VsPopFrame(s3)
                               IN  IF else_bool.t # "Bool"
                                   THEN RuntimeError(s4,
                                      "Expected bool in else if statement")
                                   ELSE IF else_bool.b
                                   THEN LET s5 ==
                                            Self("Evaluate",
                                                 <<node.else_if_node[1]>>, s4)
                                        IN  IF ~Ok(s5) THEN s5
                                            ELSE VsPopFrameAndKeepResults(s5)
                                   ELSE elsePart(s4)
                 ELSE elsePart(s2)

\* `?`, then value_stack.push(value)
PushIfOk(s, value) == IF ~Ok(s) THEN s ELSE VsPush(s, value)

\* Node::Assign
EvaluateAssign(node, s) ==
    LET s1 == Self("EvaluateAndCapture", <<node.expression>>, s)
    IN  IF ~Ok(s1) THEN s1
        ELSE LET value  == VsValue(s1)
                 s2     == VsPopFrame(s1)
                 target == node.target
             IN  PushIfOk(
                     CASE target.tk = "Id" ->
                            SetValue(s2, target.name, value, target.global)
                       [] target.tk = "Index" ->
                            Self("SetListValue",
                                 <<target.id, target.expression, value>>, s2)
                       [] OTHER ->
                            SetMapValue(s2, target.id, value),
                     value)

\* Node::List, after evaluate_expressions
ListFromFrame(s) ==
    IF Len(VsValues(s)) = 1
    THEN LET value == VsValue(s)
         IN  IF value.t = "List" THEN VsPush(VsPopFrame(s), value)
             ELSE VsPush(VsPopFrame(s), VList(<<value>>))
    ELSE VsPush(VsPopFrame(s), VList(VsValues(s)))

\* evaluate: the match on the node
EvaluateNode(node, s) ==
    CASE node.k = "Bool" -> VsPush(s, VBool(node.b))
      [] node.k = "Number" -> VsPush(s, VNumber(node.n))
      [] node.k = "Str" -> VsPush(s, VStr(node.s))
      [] node.k = "List" ->
            LET s1 == Self("EvaluateExpressions", <<node.elems>>, s)
            IN  IF ~Ok(s1) THEN s1 ELSE ListFromFrame(s1)
      [] node.k = "Range" -> EvaluateRange(node, s)
      [] node.k = "Map" -> EvaluateMapEntries(node.entries, 1, EmptyMap, s)
      [] node.k = "Index" -> Self("ListIndex", <<node.id, node.expression>>, s)
      [] node.k = "Id" ->
            IF GetValue(s, node.id) = None
            THEN RuntimeError(s, "not found")
            ELSE VsPush(s, GetValue(s, node.id)[1])
      [] node.k = "Block" ->
            LET s1 == Self("EvaluateBlock", <<node.body>>, s)
            IN  IF ~Ok(s1) THEN s1 ELSE VsPopFrameAndKeepResults(s1)
      [] node.k = "Expressions" ->
            LET s1 == Self("EvaluateExpressions", <<node.elems>>, s)
            IN  IF ~Ok(s1) THEN s1 ELSE VsPopFrameAndKeepResults(s1)
      [] node.k = "Function" -> VsPush(s, VFunction(node))
      [] node.k = "Call" -> Self("CallFunction", <<node.id, node.cargs>>, s)
      [] node.k = "Assign" -> EvaluateAssign(node, s)
      [] node.k = "Op" -> EvaluateOp(node, s)
      [] node.k = "If" -> EvaluateIf(node, s)
      [] node.k = "For" -> VsPush(s, VFor(node))

Evaluate(node, s) ==
    EvaluateNode(node, Note(VsStartFrame(s), "eval", node.k))

\* list_index, Number index, for the elements of a List
ListGetNumber(elements, n, cast) ==
    LET i == AsUsize(n, cast)
    IN  IF i < Len(elements)
        THEN [err |-> "", v |-> elements[i + 1]]
        ELSE [err |-> "Index out of bounds", v |-> Empty]

\* list_index, Range index, for the elements of a List
ListGetRange(elements, min, max) ==
    IF min < 0 \/ max < 0
    THEN [err |-> "Negative indices", v |-> Empty]
    ELSE IF min >= Len(elements) \/ max >= Len(elements)
    THEN [err |-> "Index out of bounds", v |-> Empty]
    ELSE [err |-> "", v |-> VList(SubSeq(elements, min + 1, max))]

ListIndex(id, expression, s) ==
    LET s1 == Self("Evaluate", <<expression>>, s)
    IN  IF ~Ok(s1) THEN s1
        ELSE LET index == VsValue(s1)
                 s2 == VsPopFrame(s1)
                 maybe_list == GetValue(s2, id)
             IN  IF maybe_list = None THEN RuntimeError(s2, "not found")
                 ELSE IF maybe_list[1].t # "List"
                 THEN RuntimeError(s2,
                          "Indexing is only supported for Lists")
                 ELSE LET r == CASE index.t = "Number" ->
                                      ListGetNumber(maybe_list[1].l, index,
                                                    s2.cast)
                                 [] index.t = "Range" ->
                                      ListGetRange(maybe_list[1].l,
                                                   index.min, index.max)
                                 [] OTHER ->
                                      [err |->
                                        "Indexing needs a number or a range",
                                       v |-> Empty]
                          s3 == [s2 EXCEPT !.indexings =
                                    Append(@, [op |-> "read",
                                               index |-> index,
                                               before |-> maybe_list[1].l,
                                               after |-> maybe_list[1].l,
                                               value |-> r.v,
                                               err |-> r.err])]
                      IN  IF r.err # "" THEN RuntimeError(s3, r.err)
                          ELSE VsPush(s3, r.v)

\* history: set_list_value took the Runtime from s2 to s3
ListSetRecord(s2, s3, id, index, value) ==
    IF GetValue(s2, id) # None /\ GetValue(s2, id)[1].t = "List"
    THEN [s3 EXCEPT !.indexings =
             Append(@, [op |-> "write", index |-> index,
                        before |-> GetValue(s2, id)[1].l,
                        after |-> GetValue(s3, id)[1].l,
                        value |-> value, err |-> s3.err])]
    ELSE s3

\* set_list_value, after the index expression has been evaluated
SetListValueAt(id, index, value, s2) ==
    ListSetRecord(s2, VisitValueMut(s2, id, ListVisitor(index, value)),
                  id, index, value)

SetListValue(id, expression, value, s) ==
    LET s1 == Self("Evaluate", <<expression>>, s)
    IN  IF ~Ok(s1) THEN s1
        ELSE SetListValueAt(id, VsValue(s1), value, VsPopFrame(s1))

RECURSIVE BindLoopArgs(_, _, _, _)
\* run_for_loop with several args: args[i..] take values[i..], the
\* remaining args take Empty
BindLoopArgs(s, args, values, i) ==
    IF i > Len(args) THEN s
    ELSE BindLoopArgs(SetValue(s, args[i],
                               IF i <= Len(values) THEN values[i] ELSE Empty,
                               FALSE),
                      args, values, i + 1)

\* the loop without `if let Some(condition)`: the body is evaluated for
\* every value
ForIterations_Unconditional(f, values, i, s) ==
    IF i > Len(values) THEN s
    ELSE LET s1 == IF Len(f.args) = 1
                   THEN SetValue(s, f.args[1], values[i], FALSE)
                   ELSE BindLoopArgs(s, f.args,
                                     IF values[i].t = "List" THEN values[i].l
                                     ELSE <<values[i]>>, 1)
             s4 == Self("EvaluateAndCapture", <<f.fbody>>, s1)
         IN  IF ~Ok(s4) THEN s4
             ELSE ForIterations(f, values, i + 1,
                                VsPopFrameAndKeepResults(s4))

\* run_for_loop, one range: the loop over value_iter from value i on
ForIterations(f, values, i, s) ==
    IF i > Len(values) THEN s
    ELSE LET value == values[i]
             s1 == IF Len(f.args) = 1
                   THEN SetValue(s, f.args[1], value, FALSE)
                   ELSE BindLoopArgs(s, f.args,
                                     IF value.t = "List" THEN value.l
                                     ELSE <<value>>, 1)
             body(sx) ==
                 LET s4 == Self("EvaluateAndCapture", <<f.fbody>>, sx)
                 IN  IF ~Ok(s4) THEN s4
                     ELSE ForIterations(f, values, i + 1,
                                        VsPopFrameAndKeepResults(s4))
         IN  IF f.condition # None
             THEN LET s2 == Self("Evaluate", <<f.condition[1]>>, s1)
                  IN  IF ~Ok(s2) THEN s2
                      ELSE LET cond == VsValue(s2)
                               s3 == VsPopFrame(s2)
                           IN  IF cond.t # "Bool"
                               THEN RuntimeError(s3,
                                 "Expected bool in for statement condition")
                               ELSE IF ~cond.b
                               THEN ForIterations(f, values, i + 1, s3)
                               ELSE body(s3)
             ELSE body(s1)

RECURSIVE VsPushAll(_, _, _)
\* value_stack.push(value) for values[i..]
VsPushAll(s, values, i) ==
    IF i > Len(values) THEN s
    ELSE VsPushAll(VsPush(s, values[i]), values, i + 1)

\* MultiRangeValueIterator::push_next_values_to_stack returns true at step k:
\* every iterator has a k-th value
HasNextValues(iters, k) == \A i \in DOMAIN iters : k <= Len(iters[i])

\* MultiRangeValueIterator::push_next_values_to_stack at step k, when it
\* returns true: a new frame holding the k-th value of every iterator
PushNextValues(iters, k, s) ==
    VsPushAll(VsStartFrame(s), [i \in DOMAIN iters |-> iters[i][k]], 1)

\* run_for_loop, several ranges: the body of one step of the loop
MultiRangeBody(f, iters, k, s) ==
    LET s4 == Self("EvaluateAndCapture", <<f.fbody>>, s)
    IN  IF ~Ok(s4) THEN s4
        ELSE MultiRangeIterations(f, iters, k + 1,
                                  VsPopFrameAndKeepResults(s4))

\* run_for_loop, several ranges: the loop
\* `while ranges_iter.push_next_values_to_stack(..)` from step k on
MultiRangeIterations(f, iters, k, s) ==
    IF ~HasNextValues(iters, k) THEN s
    ELSE LET s1 == PushNextValues(iters, k, s)
             s2 == IF Len(f.args) = 1
                   THEN IF VsValueCount(s1) = 1
                        THEN VsPopFrame(SetValue(s1, f.args[1], VsValue(s1),
                                                 FALSE))
                        ELSE SetValue(s1, f.args[1], VList(VsValues(s1)),
                                      FALSE)
                   ELSE VsPopFrame(BindLoopArgs(s1, f.args, VsValues(s1), 1))
         IN  IF f.condition # None
             THEN LET s3 == Self("Evaluate", <<f.condition[1]>>, s2)
                  IN  IF ~Ok(s3) THEN s3
                      ELSE IF VsValue(s3).t # "Bool"
                      THEN RuntimeError(VsPopFrame(s3),
                               "Expected bool in for statement condition")
                      ELSE IF ~VsValue(s3).b
                      THEN MultiRangeIterations(f, iters, k + 1,
                                                VsPopFrame(s3))
                      ELSE MultiRangeBody(f, iters, k, VsPopFrame(s3))
             ELSE MultiRangeBody(f, iters, k, s2)

\* run_for_loop, several ranges: f.ranges[i..] are evaluated in turn, iters
\* are the ValueIterators of the ranges before them
EvaluateRanges(f, i, iters, s) ==
    IF i > Len(f.ranges) THEN MultiRangeIterations(f, iters, 1, s)
    ELSE LET s1 == Self("Evaluate", <<f.ranges[i]>>, s)
         IN  IF ~Ok(s1) THEN s1
             ELSE IF VsValue(s1).t \in {"List", "Range"}
             THEN EvaluateRanges(f, i + 1,
                                 Append(iters, IterValues(VsValue(s1))),
                                 VsPopFrame(s1))
             ELSE RuntimeError(VsPopFrame(s1),
                      "Expected iterable range in for statement")

\* run_for_loop
RunForLoop(for_statement, s0) ==
    IF Len(for_statement.f.ranges) # 1
    THEN EvaluateRanges(for_statement.f, 1, <<>>, VsStartFrame(s0))
    ELSE
    LET s  == VsStartFrame(s0)
        f  == for_statement.f
        s1 == Self("Evaluate", <<f.ranges[1]>>, s)
    IN  IF ~Ok(s1) THEN s1
        ELSE LET range == VsValue(s1)
                 s2 == VsPopFrame(s1)
             IN  IF range.t \in {"List", "Range"}
                 THEN ForIterations(f, IterValues(range), 1, s2)
                 ELSE RuntimeError(s2,
                          "Expected iterable range in for statement")

\* history: call c has ended with outcome out
EndCall(s, c, out) ==
    [s EXCEPT !.calls = Append(@, [c EXCEPT !.d1 = CsFrame(s), !.out = out,
                                            !.end = Len(s.log)])]

\* call_function with `self.evaluate_block(&f.body)?`: a failing body returns
\* before call_stack.pop_frame()
CallArguments_ReturnsEarly(f, args, i, c, s) ==
    IF i > Len(f.args) \/ i > Len(args)
    THEN LET s1 == Self("EvaluateBlock", <<f.body>>, CsCommit(s))
             s2 == CsPopFrame(VsPopFrameAndKeepResults(s1))
         IN  IF Ok(s1)
             THEN EndCall(s2, [c EXCEPT !.bound = s.cs.pending], "ok")
             ELSE EndCall(s1, [c EXCEPT !.bound = s.cs.pending],
                          "body error")
    ELSE LET s1 == Self("EvaluateAndCapture", <<args[i]>>, s)
         IN  IF ~Ok(s1)
             THEN EndCall(CsCancel(VsPopFrame(s1)), c, "argument error")
             ELSE CallArguments(f, args, i + 1,
                                [c EXCEPT !.argv = Append(@, VsValue(s1))],
                                CsPush(VsPopFrame(s1), f.args[i],
                                       VsValue(s1)))

\* call_function: the loop over f.args.iter().zip(args.iter()) from pair i on,
\* then the call of the body
CallArguments(f, args, i, c, s) ==
    IF i > Len(f.args) \/ i > Len(args)
    THEN LET s1 == Self("EvaluateBlock", <<f.body>>, CsCommit(s))
             s2 == CsPopFrame(VsPopFrameAndKeepResults(s1))
         IN  EndCall(s2, [c EXCEPT !.bound = s.cs.pending],
                     IF Ok(s1) THEN "ok" ELSE "body error")
    ELSE LET s1 == Self("EvaluateAndCapture", <<args[i]>>, s)
         IN  IF ~Ok(s1)
             THEN EndCall(CsCancel(VsPopFrame(s1)), c, "argument error")
             ELSE CallArguments(f, args, i + 1,
                                [c EXCEPT !.argv = Append(@, VsValue(s1))],
                                CsPush(VsPopFrame(s1), f.args[i],
                                       VsValue(s1)))

\* expected_args without the implicit self of a call through a lookup
ExpectedArgs_CountsSelf(f, id) == Len(f.args)

\* call_function: expected_args
ExpectedArgs(f, id) ==
    IF Len(id) > 1 /\ Len(f.args) > 0 /\ f.args[1] = "self"
    THEN Len(f.args) - 1
    ELSE Len(f.args)

\* call_function for Some(Function(f))
CallFunctionValue(f, id, args, s) ==
    LET c == [d0 |-> CsFrame(s), d1 |-> 0, out |-> "", id |-> id,
              params |-> f.args, nargs |-> Len(args), argv |-> <<>>,
              recv |-> IF Len(id) > 1 THEN GetValue(s, MapSlice(id))
                       ELSE None,
              bound |-> <<>>, at |-> Len(s.log), end |-> 0]
    IN  IF Len(args) # ExpectedArgs(f, id)
        THEN EndCall(RuntimeError(s, "Incorrect argument count"), c,
                     "argument count")
        ELSE LET s1 == CsPush(s, id[1], f)
                 s2 == IF Len(id) > 1 /\ Len(f.args) > 0
                          /\ f.args[1] = "self"
                       THEN CsPush(s1, "self",
                                   GetValue(s1, MapSlice(id))[1])
                       ELSE s1
             IN  CallArguments(f, args, 1, c, s2)

\* history: the closure of the ExternalFunction `name` is called with the
\* values of the current frame
NoteExternal(s, name) ==
    Note(s, "ext", [name |-> name, args |-> VsValues(s)])

\* call_function that leaves the frame of the arguments on the value stack
CallFunction_KeepsArguments(id, args, s) ==
    LET maybe_function == GetValue(s, id)
    IN  IF maybe_function = None
        THEN RuntimeError(s, "Function not found")
        ELSE IF maybe_function[1].t = "ExternalFunction"
        THEN LET s1 == Self("EvaluateExpressions", <<args>>, s)
             IN  IF ~Ok(s1) THEN s1
                 ELSE LET r  == ExternalCall(maybe_function[1].name,
                                             VsValues(s1))
                          s2 == VsPopFrameAndKeepResults(
                                    NoteExternal(s1, maybe_function[1].name))
                      IN  IF r.err # "" THEN RuntimeError(s2, r.err)
                          ELSE VsPush(s2, r.v)
        ELSE IF maybe_function[1].t = "Function"
        THEN CallFunctionValue(maybe_function[1], id, args, s)
        ELSE RuntimeError(s, "Expected function")

CallFunction(id, args, s) ==
    LET maybe_function == GetValue(s, id)
    IN  IF maybe_function = None
        THEN RuntimeError(s, "Function not found")
        ELSE IF maybe_function[1].t = "ExternalFunction"
        THEN LET s1 == Self("EvaluateExpressions", <<args>>, s)
             IN  IF ~Ok(s1) THEN s1
                 ELSE LET r  == ExternalCall(maybe_function[1].name,
                                             VsValues(s1))
                          s2 == VsPopFrame(
                                    NoteExternal(s1, maybe_function[1].name))
                      IN  IF r.err # "" THEN RuntimeError(s2, r.err)
                          ELSE VsPush(s2, r.v)
        ELSE IF maybe_function[1].t = "Function"
        THEN CallFunctionValue(maybe_function[1], id, args, s)
        ELSE RuntimeError(s, "Expected function")

Self(method, args, s) ==
    CASE method = "Evaluate" -> Evaluate(args[1], s)
      [] method = "EvaluateBlock" -> EvaluateBlock(args[1], s)
      [] method = "EvaluateExpressions" -> EvaluateExpressions(args[1], s)
      [] method = "EvaluateAndCapture" -> EvaluateAndCapture(args[1], s)
      [] method = "EvaluateAndExpand" -> EvaluateAndExpand(args[1], s)
      [] method = "RunForLoop" -> RunForLoop(args[1], s)
      [] method = "ListIndex" -> ListIndex(args[1], args[2], s)
      [] method = "SetListValue" ->
            SetListValue(args[1], args[2], args[3], s)
      [] method = "CallFunction" -> CallFunction(args[1], args[2], s)

----------------------------------------------------------------------------
(* The Runtime as a state machine *)

\* the runtime state the operators work on
Runtime ==
    [global |-> global, cs |-> call_stack, vs |-> value_stack,
     cast |-> float_cast, err |-> "",
     log |-> <<>>, calls |-> <<>>, indexings |-> <<>>, map_sets |-> <<>>]

\* Runtime::run, the match on value_stack.values()
RunResult(s) ==
    IF ~Ok(s) THEN [err |-> s.err, v |-> Empty]
    ELSE CASE Len(VsValues(s)) = 0 -> [err |-> "", v |-> Empty]
           [] Len(VsValues(s)) = 1 -> [err |-> "", v |-> VsValues(s)[1]]
           [] OTHER -> [err |-> "", v |-> VList(VsValues(s))]

\* Runtime::run
RunScript(ast, s) == Self("EvaluateBlock", <<ast>>, VsStartFrame(s))

\* the Runtime is left in state s by run, which returns RunResult(s)
Returned(s) ==
    /\ global' = s.global
    /\ call_stack' = s.cs
    /\ value_stack' = s.vs
    /\ result' = RunResult(s)
    /\ log' = s.log
    /\ calls' = s.calls
    /\ indexings' = s.indexings
    /\ map_sets' = s.map_sets

Run(ast) ==
    /\ runs < MaxRuns
    /\ Returned(RunScript(ast, Runtime))
    /\ script' = ast
    /\ runs' = runs + 1
    /\ UNCHANGED float_cast
    /\ UNCHANGED valueVars
    /\ UNCHANGED queryVars
    /\ UNCHANGED vmVars

NoValues ==
    /\ heap = <<>>
    /\ original = [t |-> "Null"]
    /\ copied = None
    /\ snapshot = [t |-> "Null"]
    /\ touched = <<>>
    /\ subject = [t |-> "Null"]
    /\ answer = None
    /\ NoVm

\* Runtime::new
Init ==
    /\ NoValues
    /\ float_cast \in {"saturate", "wrap"}
    /\ global = Builtins
    /\ call_stack = [frames |-> <<>>, pending |-> <<>>]
    /\ value_stack = [values |-> <<>>, frames |-> <<>>]
    /\ result = [err |-> "", v |-> Empty]
    /\ log = <<>>
    /\ calls = <<>>
    /\ indexings = <<>>
    /\ map_sets = <<>>
    /\ script = <<>>
    /\ runs = 0

----------------------------------------------------------------------------
(* Scripts: AstNode values as the parser builds them *)

Num(n) == [k |-> "Number", n |-> n]
Boolean(b) == [k |-> "Bool", b |-> b]
Str(str) == [k |-> "Str", s |-> str]
Id(name) == [k |-> "Id", id |-> <<name>>]
Lookup(id) == [k |-> "Id", id |-> id]
List(elems) == [k |-> "List", elems |-> elems]
Expressions(elems) == [k |-> "Expressions", elems |-> elems]
Block(body) == [k |-> "Block", body |-> body]
RangeOf(lo, hi, inclusive) ==
    [k |-> "Range", lo |-> lo, hi |-> hi, inclusive |-> inclusive]
Entry(name, node) == [name |-> name, node |-> node]
Map(entries) == [k |-> "Map", entries |-> entries]
Index(id, expression) ==
    [k |-> "Index", id |-> id, expression |-> expression]
Function(args, body) == [k |-> "Function", args |-> args, body |-> body]
Call(id, cargs) == [k |-> "Call", id |-> id, cargs |-> cargs]
Op(op, lhs, rhs) == [k |-> "Op", op |-> op, lhs |-> lhs, rhs |-> rhs]
If(condition, then_node, else_node) ==
    [k |-> "If", condition |-> condition, then_node |-> then_node,
     else_if_condition |-> None, else_if_node |-> None,
     else_node |-> else_node]
IfElseIf(condition, then_node, else_if_condition, else_if_node, else_node) ==
    [k |-> "If", condition |-> condition, then_node |-> then_node,
     else_if_condition |-> Some(else_if_condition),
     else_if_node |-> Some(else_if_node), else_node |-> else_node]
For(args, range, condition, fbody) ==
    [k |-> "For", args |-> args, ranges |-> <<range>>,
     condition |-> condition, fbody |-> fbody]
ForRanges(args, ranges, condition, fbody) ==
    [k |-> "For", args |-> args, ranges |-> ranges,
     condition |-> condition, fbody |-> fbody]
Assign(name, expression) ==
    [k |-> "Assign", expression |-> expression,
     target |-> [tk |-> "Id", name |-> name, global |-> FALSE]]
AssignGlobal(name, expression) ==
    [k |-> "Assign", expression |-> expression,
     target |-> [tk |-> "Id", name |-> name, global |-> TRUE]]
AssignIndex(id, index, expression) ==
    [k |-> "Assign", expression |-> expression,
     target |-> [tk |-> "Index", id |-> id, expression |-> index]]
AssignLookup(id, expression) ==
    [k |-> "Assign", expression |-> expression,
     target |-> [tk |-> "Lookup", id |-> id]]

\* scripts about blocks, errors and operators
BlockScripts ==
    { <<Num(1)>>,
      <<Assign("x", Num(1)), Id("x")>>,
      <<Id("nope"), Assign("x", Num(2))>>,
      <<Call(<<"print">>, <<Id("nope"), Assign("y", Num(1))>>)>>,
      <<Op("Add", Id("nope"), Assign("y", Num(1)))>>,
      <<Op("Add", Num(1), Boolean(TRUE)), Call(<<"print">>, <<Num(1)>>)>>,
      <<Call(<<"assert">>, <<Boolean(FALSE)>>), Assign("z", Num(3))>>,
      <<For(<<"i">>, List(<<Num(1), Boolean(FALSE), Num(3)>>), None,
            Block(<<Assign("w", Id("i")),
                    Op("Add", Id("i"), Num(1))>>)),
        Assign("v", Num(1))>>,
      <<For(<<"i">>, RangeOf(Num(0), Num(3), FALSE), None,
            Op("Multiply", Id("i"), Id("i")))>>,
      <<Op("And", Boolean(FALSE), Assign("a", Boolean(TRUE)))>>,
      <<Op("Or", Boolean(TRUE), Id("nope"))>>,
      <<Op("And", Boolean(TRUE), Call(<<"print">>, <<Num(1)>>))>>,
      <<If(Op("Less", Num(1), Num(2)), Id("nope"), Some(Num(2))),
        Assign("u", Num(1))>>,
      <<If(Boolean(FALSE), Num(1), None), Num(2)>>,
      <<Assign("h", Function(<<"x">>, <<Id("nope"), Assign("t", Num(1))>>)),
        Call(<<"h">>, <<Num(1)>>), Assign("s", Num(1))>>,
      <<Assign("f", Function(<<"x">>, <<Op("Add", Id("x"), Num(1))>>)),
        Call(<<"f">>, <<Call(<<"f">>, <<Boolean(TRUE)>>)>>),
        Call(<<"print">>, <<Num(2)>>)>> }

SpecBlocks == Init /\ [][\E ast \in BlockScripts : Run(ast)]_vars

\* f = |x| x + 1
DefF == Assign("f", Function(<<"x">>, <<Op("Add", Id("x"), Num(1))>>))
\* p = |a, b| a
DefP == Assign("p", Function(<<"a", "b">>, <<Id("a")>>))
\* m = {f: |self, x| x}
DefSelfMap ==
    Assign("m", Map(<<Entry("f", Function(<<"self", "x">>, <<Id("x")>>))>>))

\* scripts about function calls
CallScripts ==
    { <<DefF, Call(<<"f">>, <<Num(1)>>)>>,
      <<DefF, Call(<<"f">>, <<Assign("y", Num(1)), Num(2)>>)>>,
      <<DefF, Call(<<"f">>, <<>>)>>,
      <<DefF, Call(<<"f">>, <<Id("nope")>>)>>,
      <<DefF, Assign("g", Function(<<"x">>, <<Call(<<"f">>, <<Id("x")>>)>>)),
        Call(<<"g">>, <<Call(<<"f">>, <<Num(1)>>)>>)>>,
      <<DefF, Assign("g", Function(<<"x">>, <<Call(<<"f">>, <<Id("x")>>)>>)),
        Call(<<"g">>, <<Boolean(TRUE)>>)>>,
      <<DefF, DefP,
        Call(<<"p">>, <<Call(<<"f">>, <<Num(1)>>), Id("nope")>>)>>,
      <<DefF, DefP,
        Call(<<"p">>, <<Call(<<"f">>, <<Num(1), Num(2)>>), Num(1)>>)>>,
      <<DefF, Assign("g", Function(<<"x">>,
                 <<Call(<<"f">>, <<Id("x"), Assign("y", Num(1))>>)>>)),
        Call(<<"g">>, <<Num(1)>>)>>,
      <<DefSelfMap, Call(<<"m", "f">>, <<Num(7)>>)>>,
      <<DefSelfMap, Call(<<"m", "f">>, <<>>)>>,
      <<DefSelfMap, Call(<<"m", "f">>, <<Num(1), Num(2)>>)>>,
      <<Assign("m", Map(<<Entry("v", Num(5)),
                          Entry("get", Function(<<"self">>,
                                          <<Lookup(<<"self", "v">>)>>))>>)),
        Call(<<"m", "get">>, <<>>)>>,
      <<Assign("m", Map(<<Entry("f", Function(<<"self", "x", "y">>,
                                        <<Id("self")>>))>>)),
        Call(<<"m", "f">>, <<Num(1), Num(2)>>)>>,
      <<Assign("m", Map(<<Entry("g", Function(<<"x">>, <<Id("x")>>))>>)),
        Call(<<"m", "g">>, <<Num(3)>>)>>,
      <<Assign("x", Num(1)), Call(<<"x">>, <<>>)>> }

SpecCalls == Init /\ [][\E ast \in CallScripts : Run(ast)]_vars

\* a = [1 2]; b = a; a[0] = 5; b[0]
AliasListScript ==
    <<Assign("a", List(<<Num(1), Num(2)>>)), Assign("b", Id("a")),
      AssignIndex(<<"a">>, Num(0), Num(5)), Index(<<"b">>, Num(0))>>

\* m = {k: 1}; n = m; m.k = 5; n.k
AliasMapScript ==
    <<Assign("m", Map(<<Entry("k", Num(1))>>)), Assign("n", Id("m")),
      AssignLookup(<<"m", "k">>, Num(5)), Lookup(<<"n", "k">>)>>

\* m = {a: 1, b: 2}; m.b = 5; m.a + m.b
MapScenarioScript ==
    <<Assign("m", Map(<<Entry("a", Num(1)), Entry("b", Num(2))>>)),
      AssignLookup(<<"m", "b">>, Num(5)),
      Op("Add", Lookup(<<"m", "a">>), Lookup(<<"m", "b">>))>>

\* a = [10 20 30]
DefA == Assign("a", List(<<Num(10), Num(20), Num(30)>>))

\* scripts about Lists and Maps
ContainerScripts ==
    { AliasListScript, AliasMapScript, MapScenarioScript,
      <<DefA, Index(<<"a">>, Num(3))>>,
      <<DefA, AssignIndex(<<"a">>, Num(3), Num(99))>>,
      <<DefA, Index(<<"a">>, Num(-1))>>,
      <<DefA, AssignIndex(<<"a">>, Num(-1), Num(99)),
        Index(<<"a">>, Num(-1))>>,
      <<DefA, AssignIndex(<<"a">>, Num(2), Num(99)), Index(<<"a">>, Num(2))>>,
      <<Assign("e", List(<<>>)), Index(<<"e">>, Num(-1))>>,
      <<Assign("e", List(<<>>)), Index(<<"e">>, Num(0))>>,
      <<Assign("o", List(<<Num(7)>>)), Index(<<"o">>, Num(-1))>>,
      <<Assign("x", Num(1)), AssignLookup(<<"x", "k">>, Num(2))>>,
      <<AssignLookup(<<"nope", "k">>, Num(1))>>,
      <<Assign("m", Map(<<Entry("a", Num(1))>>)),
        AssignLookup(<<"m", "c">>, Id("m")), Lookup(<<"m", "c">>)>>,
      <<Assign("f", Function(<<"q">>,
                      <<AssignLookup(<<"q", "a">>, Num(7)),
                        Lookup(<<"q", "a">>)>>)),
        Call(<<"f">>, <<Map(<<Entry("a", Num(1)), Entry("b", Num(2))>>)>>)>>,
      <<Assign("f", Function(<<"q">>,
                      <<AssignLookup(<<"q", "a">>, Num(7))>>)),
        Call(<<"f">>, <<Num(5)>>)>> }

SpecContainers == Init /\ [][\E ast \in ContainerScripts : Run(ast)]_vars

\* argument lists of a call, each with the values its expressions denote
\* when x is 5 (None when an argument fails)
ArgumentLists ==
    { [cargs |-> <<>>, values |-> Some(<<>>)],
      [cargs |-> <<Num(1)>>, values |-> Some(<<VNumber(1)>>)],
      [cargs |-> <<Boolean(TRUE)>>, values |-> Some(<<VBool(TRUE)>>)],
      [cargs |-> <<Boolean(TRUE), Boolean(FALSE), Id("nope")>>,
       values |-> None],
      [cargs |-> <<Boolean(TRUE), Boolean(FALSE), Num(1)>>,
       values |-> Some(<<VBool(TRUE), VBool(FALSE), VNumber(1)>>)],
      [cargs |-> <<Num(1), Num(1)>>,
       values |-> Some(<<VNumber(1), VNumber(1)>>)],
      [cargs |-> <<Num(1), Num(2)>>,
       values |-> Some(<<VNumber(1), VNumber(2)>>)],
      [cargs |-> <<Id("x"), Op("Add", Num(2), Num(3))>>,
       values |-> Some(<<VNumber(5), VNumber(5)>>)],
      [cargs |-> <<Id("nope")>>, values |-> None],
      [cargs |-> <<Op("Add", Num(1), Boolean(TRUE)), Num(2)>>,
       values |-> None],
      [cargs |-> <<RangeOf(Num(0), Num(3), FALSE)>>,
       values |-> Some(<<VList(<<VNumber(0), VNumber(1), VNumber(2)>>)>>)],
      [cargs |-> <<RangeOf(Num(0), Num(0), FALSE), Boolean(TRUE)>>,
       values |-> Some(<<Empty, VBool(TRUE)>>)],
      [cargs |-> <<Assign("y", Num(1)), Id("y")>>,
       values |-> Some(<<VNumber(1), VNumber(1)>>)],
      [cargs |-> <<Call(<<"assert_eq">>, <<Num(1), Num(1)>>), Num(2)>>,
       values |-> Some(<<Empty, VNumber(2)>>)],
      [cargs |-> <<List(<<Num(1), Num(2)>>), Str("a")>>,
       values |-> Some(<<VList(<<VNumber(1), VNumber(2)>>), VStr("a")>>)] }

\* calls of the three external functions
ExternalCalls ==
    { Call(<<name>>, a.cargs) :
        name \in {"assert", "assert_eq", "print"}, a \in ArgumentLists }

\* value stacks a call can find: fresh, inside a frame, after an earlier run
ValueStacks ==
    { [values |-> <<>>, frames |-> <<>>],
      [values |-> <<VNumber(1)>>, frames |-> <<0, 0>>],
      [values |-> <<VNumber(7), VNumber(8)>>, frames |-> <<0, 1>>] }

\* call stacks a call can find: top level, or inside a call of f with a = 1
CallStacks ==
    { [frames |-> <<>>, pending |-> <<>>],
      [frames |-> << <<[name |-> "f", value |-> VNumber(0)],
                       [name |-> "a", value |-> VNumber(1)]>> >>,
       pending |-> <<>>] }

ExternalInit ==
    /\ NoValues
    /\ float_cast \in {"saturate", "wrap"}
    /\ global = [n \in DOMAIN Builtins \cup {"x"} |->
                   IF n = "x" THEN VNumber(5) ELSE Builtins[n]]
    /\ call_stack \in CallStacks
    /\ value_stack \in ValueStacks
    /\ result = [err |-> "", v |-> Empty]
    /\ log = <<>>
    /\ calls = <<>>
    /\ indexings = <<>>
    /\ map_sets = <<>>
    /\ script = <<>>
    /\ runs = 0

\* Runtime::evaluate on one Node::Call
EvaluateCall(node) ==
    /\ runs = 0
    /\ Returned(Self("Evaluate", <<node>>, Runtime))
    /\ script' = <<node>>
    /\ runs' = 1
    /\ UNCHANGED float_cast
    /\ UNCHANGED valueVars
    /\ UNCHANGED queryVars
    /\ UNCHANGED vmVars

SpecExternal ==
    ExternalInit /\ [][\E node \in ExternalCalls : EvaluateCall(node)]_vars

\* f = |n| if n < 2 then n else f(n-1) + f(n-2)
DefFib ==
    Assign("f", Function(<<"n">>,
        <<If(Op("Less", Id("n"), Num(2)),
             Id("n"),
             Some(Op("Add",
                     Call(<<"f">>, <<Op("Subtract", Id("n"), Num(1))>>),
                     Call(<<"f">>, <<Op("Subtract", Id("n"), Num(2))>>))))>>))

\* f(ns[1]); ...; f(ns[k])
FibCalls(ns) == [i \in 1..Len(ns) |-> Call(<<"f">>, <<Num(ns[i])>>)]

\* f = ...; f(ns[1]); ...; f(ns[k])
FibScript(ns) == <<DefFib>> \o FibCalls(ns)

FibScripts ==
    {FibScript(ns) : ns \in UNION {[1..k -> 0..MaxFib] : k \in 1..3}}

SpecFib == Init /\ [][\E ast \in FibScripts : Run(ast)]_vars

\* the bounds of a range literal are -1 .. MaxEnd
RangeBounds == -1..MaxEnd

\* a..b or a..=b as the last expression of the script
ExpandScript(lo, hi, inclusive) == <<RangeOf(Num(lo), Num(hi), inclusive)>>

\* for i in a..b (or a..=b)
\*   i
IterateScript(lo, hi, inclusive) ==
    <<For(<<"i">>, RangeOf(Num(lo), Num(hi), inclusive), None, Id("i"))>>

\* scripts that expand a range and scripts that iterate over one
RangeScripts ==
    { ExpandScript(lo, hi, inc) :
        lo \in RangeBounds, hi \in RangeBounds, inc \in BOOLEAN }
    \cup { IterateScript(lo, hi, inc) :
        lo \in RangeBounds, hi \in RangeBounds, inc \in BOOLEAN }

SpecRanges == Init /\ [][\E ast \in RangeScripts : Run(ast)]_vars

\* for loops over one range and over several, with one arg and with several,
\* with and without a condition
LoopScripts ==
    { <<For(<<"i">>, RangeOf(Num(0), Num(3), FALSE), None, Id("i"))>>,
      <<For(<<"i">>, RangeOf(Num(0), Num(0), FALSE), None, Id("i")),
        Num(7)>>,
      <<For(<<"i">>, List(<<Num(4), Num(5), Num(6)>>),
            Some(Op("Less", Id("i"), Num(6))),
            Op("Add", Id("i"), Num(1)))>>,
      <<For(<<"i">>, RangeOf(Num(0), Num(4), FALSE),
            Some(Op("Equal", Op("Modulo", Id("i"), Num(2)), Num(0))),
            Call(<<"print">>, <<Id("i")>>))>>,
      <<For(<<"i">>, RangeOf(Num(0), Num(3), FALSE),
            Some(Op("Less", Num(0), Id("i"))),
            Block(<<Assign("n", Id("i")), Id("n")>>)),
        Id("n")>>,
      <<For(<<"a", "b">>,
            List(<<List(<<Num(1), Num(2)>>), List(<<Num(3)>>), Num(4),
                   List(<<Num(5), Num(6), Num(7)>>)>>),
            None, List(<<Id("a"), Id("b")>>))>>,
      <<For(<<"a", "b">>, RangeOf(Num(0), Num(2), FALSE), None,
            List(<<Id("a"), Id("b")>>))>>,
      <<For(<<"i">>, RangeOf(Num(0), Num(2), FALSE), Some(Id("i")),
            Id("i"))>>,
      <<For(<<"i">>, RangeOf(Num(0), Num(2), FALSE), Some(Id("nope")),
            Id("i"))>>,
      <<For(<<"i">>, Num(3), None, Id("i"))>>,
      <<For(<<"i">>, Str("abc"), None, Id("i"))>>,
      <<For(<<"i">>, List(<<Num(1), Num(2)>>), None,
            Op("Add", Id("i"), Boolean(TRUE))),
        Assign("after", Num(1))>>,
      <<Assign("f", Function(<<"n">>,
            <<For(<<"i">>, RangeOf(Num(0), Id("n"), FALSE), None,
                  Op("Multiply", Id("i"), Num(2)))>>)),
        Call(<<"f">>, <<Num(3)>>)>>,
      <<ForRanges(<<"i">>, <<RangeOf(Num(0), Num(2), FALSE),
                            List(<<Num(5), Num(6), Num(7)>>)>>,
                  None, Id("i"))>>,
      <<ForRanges(<<"i">>, <<RangeOf(Num(0), Num(3), FALSE),
                            RangeOf(Num(0), Num(3), FALSE)>>,
                  Some(Boolean(FALSE)), Num(1)),
        Num(2)>>,
      <<ForRanges(<<"i", "j">>, <<RangeOf(Num(0), Num(3), FALSE),
                                 List(<<Num(5), Num(6)>>)>>,
                  None, Op("Add", Id("i"), Id("j")))>>,
      <<ForRanges(<<"i", "j", "k">>, <<RangeOf(Num(0), Num(2), FALSE),
                                      RangeOf(Num(1), Num(3), FALSE)>>,
                  Some(Op("Less", Id("i"), Num(1))),
                  List(<<Id("i"), Id("j"), Id("k")>>)),
        Num(2)>>,
      <<ForRanges(<<"i", "j">>, <<RangeOf(Num(0), Num(2), FALSE), Num(1)>>,
                  None, Id("i"))>>,
      <<ForRanges(<<"i", "j">>, <<RangeOf(Num(0), Num(0), FALSE),
                                 RangeOf(Num(0), Num(2), FALSE)>>,
                  None, Id("i"))>> }

\* expressions of every kind, the for loops of LoopScripts among them
FrameNodes ==
    {ast[1] : ast \in LoopScripts}
    \cup { Num(1), Id("x"), Str("s"),
           Assign("y", Num(1)),
           List(<<Num(1), Op("Add", Num(1), Num(2))>>),
           List(<<>>),
           RangeOf(Num(0), Num(3), FALSE),
           RangeOf(Num(1), Num(1), FALSE),
           Block(<<Num(1), Num(2)>>),
           Block(<<RangeOf(Num(0), Num(2), FALSE), Num(2)>>),
           If(Op("Less", Num(1), Num(2)), Num(1), Some(Num(2))),
           If(Boolean(FALSE), Num(1), None),
           Map(<<Entry("a", Num(1))>>),
           Function(<<"a">>, <<Id("a")>>),
           Op("Add", Id("x"), Num(1)),
           Call(<<"print">>, <<Num(1), Op("Add", Num(1), Num(2))>>),
           Call(<<"assert">>, <<Boolean(TRUE)>>),
           Call(<<"f">>, <<Num(1)>>),
           Call(<<"f">>, <<Call(<<"f">>, <<Id("x")>>)>>),
           Call(<<"g">>, <<>>) }

\* calls of evaluate, evaluate_and_capture and evaluate_and_expand
NodeCalls ==
    {[method |-> m, args |-> <<n>>] :
        m \in {"Evaluate", "EvaluateAndCapture", "EvaluateAndExpand"},
        n \in FrameNodes}

\* calls of evaluate_block and evaluate_expressions
BlockCalls ==
    {[method |-> m, args |-> <<ast>>] :
        m \in {"EvaluateBlock", "EvaluateExpressions"},
        ast \in LoopScripts
                \cup {<<>>, <<Num(1)>>,
                      <<Assign("y", Num(1)), Id("y")>>,
                      <<Call(<<"f">>, <<Num(1)>>), Id("x")>>,
                      <<Id("x"), Op("Add", Num(1), Num(2)),
                        RangeOf(Num(0), Num(2), FALSE)>>}}

\* calls of run_for_loop
LoopCalls ==
    {[method |-> "RunForLoop", args |-> <<VFor(ast[1])>>] :
        ast \in {a \in LoopScripts : a[1].k = "For"}}

\* x = 5; f = |a| b = a; b + 1; g = || for i in 0..2 i
FrameGlobal ==
    [n \in DOMAIN Builtins \cup {"x", "f", "g"} |->
        CASE n = "x" -> VNumber(5)
          [] n = "f" -> VFunction([args |-> <<"a">>,
                                   body |-> <<Assign("b", Id("a")),
                                              Op("Add", Id("b"), Num(1))>>])
          [] n = "g" -> VFunction([args |-> <<>>,
                                   body |-> <<For(<<"i">>,
                                                  RangeOf(Num(0), Num(2),
                                                          FALSE),
                                                  None, Id("i"))>>])
          [] OTHER -> Builtins[n]]

FrameInit ==
    /\ heap = <<>>
    /\ original = [t |-> "Null"]
    /\ copied = None
    /\ snapshot = [t |-> "Null"]
    /\ touched = <<>>
    /\ \E vs \in ValueStacks :
          /\ value_stack = vs
          /\ \/ \E c \in NodeCalls :
                   subject = [method |-> c.method, args |-> c.args, vs |-> vs]
             \/ \E c \in BlockCalls :
                   subject = [method |-> c.method, args |-> c.args, vs |-> vs]
             \/ \E c \in LoopCalls :
                   subject = [method |-> c.method, args |-> c.args, vs |-> vs]
    /\ answer = None
    /\ NoVm
    /\ float_cast \in {"saturate", "wrap"}
    /\ global = FrameGlobal
    /\ call_stack = [frames |-> <<>>, pending |-> <<>>]
    /\ result = [err |-> "", v |-> Empty]
    /\ log = <<>>
    /\ calls = <<>>
    /\ indexings = <<>>
    /\ map_sets = <<>>
    /\ script = <<>>
    /\ runs = 0

\* self.method(args...) on the Runtime
CallMethod ==
    /\ runs = 0
    /\ Returned(Self(subject.method, subject.args, Runtime))
    /\ runs' = 1
    /\ UNCHANGED script
    /\ UNCHANGED float_cast
    /\ UNCHANGED valueVars
    /\ UNCHANGED queryVars
    /\ UNCHANGED vmVars

SpecFrames == FrameInit /\ [][CallMethod]_vars

\* functions that assign, with and without the global flag, to names that
\* the global map has and to names it has not, and that write elements
ScopeFunctions ==
    [shadow |-> VFunction([args |-> <<"a">>,
                           body |-> <<Assign("x", Id("a")), Id("x")>>]),
     fresh |-> VFunction([args |-> <<"a">>,
                          body |-> <<Assign("y", Id("a")),
                                     Assign("y", Num(8)), Id("y")>>]),
     param |-> VFunction([args |-> <<"x">>,
                          body |-> <<Assign("x", Num(7)), Id("x")>>]),
     flagged |-> VFunction([args |-> <<"a">>,
                            body |-> <<AssignGlobal("x", Id("a")),
                                       AssignGlobal("z", Num(3)),
                                       Id("x")>>]),
     both |-> VFunction([args |-> <<"a">>,
                         body |-> <<Assign("x", Num(1)),
                                    AssignGlobal("x", Num(2)), Id("x")>>]),
     loop |-> VFunction([args |-> <<>>,
                         body |-> <<For(<<"x">>,
                                        RangeOf(Num(0), Num(2), FALSE),
                                        None, Assign("y", Id("x")))>>]),
     reads |-> VFunction([args |-> <<>>, body |-> <<Id("x")>>]),
     fails |-> VFunction([args |-> <<>>,
                          body |-> <<Assign("x", Num(1)), Id("nope")>>]),
     nested |-> VFunction([args |-> <<"a">>,
                           body |-> <<Assign("x", Num(4)),
                                      Call(<<"shadow">>, <<Num(6)>>),
                                      Id("x")>>]),
     element |-> VFunction([args |-> <<>>,
                            body |-> <<AssignIndex(<<"l">>, Num(0),
                                                   Num(9))>>]),
     entry |-> VFunction([args |-> <<>>,
                          body |-> <<AssignLookup(<<"m", "k">>, Num(9))>>])]

\* x = 5; l = [1 2]; m = {k: 1}; and the functions
ScopeGlobal ==
    [n \in DOMAIN ScopeFunctions \cup {"x", "l", "m"} |->
        CASE n = "x" -> VNumber(5)
          [] n = "l" -> VList(<<VNumber(1), VNumber(2)>>)
          [] n = "m" -> VMap([k \in {"k"} |-> VNumber(1)])
          [] OTHER -> ScopeFunctions[n]]

\* call stacks: no call is active; one call with x bound twice; a call
\* inside a call that has bound x and y
ScopeStacks ==
    { [frames |-> <<>>, pending |-> <<>>],
      [frames |-> << <<[name |-> "x", value |-> VNumber(10)],
                       [name |-> "a", value |-> VNumber(11)],
                       [name |-> "x", value |-> VNumber(12)]>> >>,
       pending |-> <<>>],
      [frames |-> << <<[name |-> "x", value |-> VNumber(20)],
                       [name |-> "y", value |-> VNumber(21)]>>,
                     <<[name |-> "a", value |-> VNumber(22)]>> >>,
       pending |-> <<>>] }

ScopeNames == {"x", "y", "a"}

ScopeInit ==
    /\ heap = <<>>
    /\ original = [t |-> "Null"]
    /\ copied = None
    /\ snapshot = [t |-> "Null"]
    /\ touched = <<>>
    /\ \E cs \in ScopeStacks :
          /\ call_stack = cs
          /\ \/ \E id \in ScopeNames, n \in {1, 2}, flag \in BOOLEAN :
                   subject = [op |-> "set", id |-> id, value |-> VNumber(n),
                              flag |-> flag, cs |-> cs]
             \/ \E id \in ScopeNames \cup {"z"} :
                   subject = [op |-> "get", id |-> id, cs |-> cs]
             \/ \E f \in DOMAIN ScopeFunctions :
                   subject = [op |-> "call", id |-> f, cs |-> cs]
    /\ answer = None
    /\ NoVm
    /\ float_cast \in {"saturate", "wrap"}
    /\ global = ScopeGlobal
    /\ value_stack = [values |-> <<>>, frames |-> <<>>]
    /\ result = [err |-> "", v |-> Empty]
    /\ log = <<>>
    /\ calls = <<>>
    /\ indexings = <<>>
    /\ map_sets = <<>>
    /\ script = <<>>
    /\ runs = 0

\* self.set_value(id, value, global)
CallSetValue ==
    /\ runs = 0
    /\ subject.op = "set"
    /\ Returned(SetValue(Runtime, subject.id, subject.value, subject.flag))
    /\ runs' = 1
    /\ UNCHANGED script
    /\ UNCHANGED float_cast
    /\ UNCHANGED valueVars
    /\ UNCHANGED queryVars
    /\ UNCHANGED vmVars

\* self.get_value(id)
CallGetValue ==
    /\ runs = 0
    /\ subject.op = "get"
    /\ answer' = Some(GetValue(Runtime, <<subject.id>>))
    /\ runs' = 1
    /\ UNCHANGED <<float_cast, global, call_stack, value_stack, result, log,
                   calls, indexings, map_sets, script>>
    /\ UNCHANGED subject
    /\ UNCHANGED valueVars
    /\ UNCHANGED vmVars

\* the argument of the call of a function of ScopeFunctions
ScopeArgs(f) == IF ScopeFunctions[f].args = <<>> THEN <<>> ELSE <<Num(6)>>

\* self.evaluate of the call f(6) or f()
CallScoped ==
    /\ runs = 0
    /\ subject.op = "call"
    /\ Returned(Self("Evaluate",
                     <<Call(<<subject.id>>, ScopeArgs(subject.id))>>,
                     Runtime))
    /\ runs' = 1
    /\ UNCHANGED script
    /\ UNCHANGED float_cast
    /\ UNCHANGED valueVars
    /\ UNCHANGED queryVars
    /\ UNCHANGED vmVars

SpecScopes ==
    ScopeInit /\ [][CallSetValue \/ CallGetValue \/ CallScoped]_vars

\* the elements of the lists a loop iterates: numbers, booleans, lists
LoopElements ==
    { <<>>,
      <<VNumber(4)>>,
      <<VNumber(1), VNumber(2), VNumber(3)>>,
      <<VNumber(3), VNumber(1), VNumber(2)>>,
      <<VBool(TRUE), VBool(FALSE), VBool(TRUE)>>,
      <<VBool(FALSE), VBool(FALSE)>>,
      <<VBool(TRUE), VNumber(1), VBool(TRUE)>>,
      <<VList(<<VNumber(1), VNumber(2)>>), VList(<<VNumber(3)>>), VNumber(4),
        VList(<<VNumber(5), VNumber(6), VNumber(7)>>)>>,
      <<VList(<<>>), VList(<<VBool(TRUE), VBool(FALSE)>>),
        VList(<<VBool(FALSE)>>)>> }

\* the literal that evaluates to a number or a boolean
LeafNode(v) == IF v.t = "Number" THEN Num(v.n) ELSE Boolean(v.b)

\* the list literal that evaluates to the list of values
ListNode(values) ==
    List([i \in DOMAIN values |->
            IF values[i].t = "List"
            THEN List([j \in DOMAIN values[i].l |-> LeafNode(values[i].l[j])])
            ELSE LeafNode(values[i])])

\* the iterables of the loops: the node and the elements it iterates
\* (no elements for a node that is neither a List nor a Range)
LoopIterables ==
    {[node |-> ListNode(l), iterable |-> TRUE, elems |-> l] :
        l \in LoopElements}
    \cup {[node |-> RangeOf(Num(lo), Num(hi), FALSE), iterable |-> TRUE,
           elems |-> [i \in 1..(hi - lo) |-> VNumber(lo + i - 1)]] :
            lo \in 0..2, hi \in 2..(2 + MaxEnd)}
    \cup {[node |-> n, iterable |-> FALSE, elems |-> <<>>] :
            n \in {Num(3), Str("abc"), Boolean(TRUE)}}

LoopArgs == {<<"i">>, <<"a", "b">>, <<"a", "b", "c">>}

\* the conditions of the loops: none, a constant, the first argument
\* itself, a comparison of the first argument
LoopConditions == {"none", "true", "false", "first", "less"}

ConditionNode(condition, args) ==
    CASE condition = "none" -> None
      [] condition = "true" -> Some(Boolean(TRUE))
      [] condition = "false" -> Some(Boolean(FALSE))
      [] condition = "first" -> Some(Id(args[1]))
      [] OTHER -> Some(Op("Less", Id(args[1]), Num(2)))

\* the body prints the arguments and gives them back
BodyNode(args) ==
    Block(<<Call(<<"print">>, [i \in DOMAIN args |-> Id(args[i])]),
            IF Len(args) = 1 THEN Id(args[1])
            ELSE List([i \in DOMAIN args |-> Id(args[i])])>>)

\* for args in iterable if condition { print(args); args }
LoopOf(args, it, condition) ==
    [args |-> args, iterable |-> it.iterable, elems |-> it.elems,
     condition |-> condition,
     node |-> For(args, it.node, ConditionNode(condition, args),
                  BodyNode(args))]

Loops ==
    {LoopOf(args, it, condition) :
        args \in LoopArgs, it \in LoopIterables,
        condition \in LoopConditions}

LoopInit ==
    /\ heap = <<>>
    /\ original = [t |-> "Null"]
    /\ copied = None
    /\ snapshot = [t |-> "Null"]
    /\ touched = <<>>
    /\ \E vs \in ValueStacks, loop \in Loops :
          /\ value_stack = vs
          /\ subject = [loop |-> loop, vs |-> vs]
    /\ answer = None
    /\ NoVm
    /\ float_cast \in {"saturate", "wrap"}
    /\ global = FrameGlobal
    /\ call_stack = [frames |-> <<>>, pending |-> <<>>]
    /\ result = [err |-> "", v |-> Empty]
    /\ log = <<>>
    /\ calls = <<>>
    /\ indexings = <<>>
    /\ map_sets = <<>>
    /\ script = <<>>
    /\ runs = 0

\* self.run_for_loop(&For(loop), node)
CallRunForLoop ==
    /\ runs = 0
    /\ Returned(Self("RunForLoop", <<VFor(subject.loop.node)>>, Runtime))
    /\ runs' = 1
    /\ UNCHANGED script
    /\ UNCHANGED float_cast
    /\ UNCHANGED valueVars
    /\ UNCHANGED queryVars
    /\ UNCHANGED vmVars

SpecLoops == LoopInit /\ [][CallRunForLoop]_vars

----------------------------------------------------------------------------
(* Core Values (value.rs).  A List, a Map, a meta map and a captures list   *)
(* are cells of the heap, a Value holds the handle of its cell (0 is None). *)
(* The heap is a sequence: handle h is cell heap[h].                        *)

Null == [t |-> "Null"]
Integer(n) == [t |-> "Number", n |-> n]
Text(str) == [t |-> "Str", s |-> str]
ListOf(h) == [t |-> "List", h |-> h]
TupleOf(elems) == [t |-> "Tuple", elems |-> elems]
MapOf(h) == [t |-> "Map", h |-> h]
FunctionOf(captures) == [t |-> "Function", captures |-> captures]
GeneratorOf(captures) == [t |-> "Generator", captures |-> captures]

ListCell(items) == [kind |-> "List", items |-> items]
MapCell(entries, meta) == [kind |-> "Map", entries |-> entries, meta |-> meta]
MetaCell(entries) == [kind |-> "Meta", entries |-> entries]

RECURSIVE DeepCopy(_, _), DeepCopyItems(_, _, _, _),
          DeepCopyEntries(_, _, _, _)

\* ValueList::with_data / ValueMap::with_contents: a new cell
Alloc(hp, cell) == [hp |-> Append(hp, cell), h |-> Len(hp) + 1]

\* .iter().map(|v| v.deep_copy()).collect(): items[i..], done = the copies
DeepCopyItems(items, i, done, hp) ==
    IF i > Len(items) THEN [hp |-> hp, items |-> done]
    ELSE LET r == DeepCopy(items[i], hp)
         IN  DeepCopyItems(items, i + 1, Append(done, r.v), r.hp)

\* m.data().iter().map(|(k, v)| v.deep_copy()...): the entries of keys
DeepCopyEntries(entries, keys, done, hp) ==
    IF keys = {} THEN [hp |-> hp, entries |-> done]
    ELSE LET key == CHOOSE x \in keys : TRUE
             r == DeepCopy(entries[key], hp)
         IN  DeepCopyEntries(entries, keys \ {key},
                             MapInsert(done, key, r.v), r.hp)

\* the meta map of the copy: meta.borrow().clone() in a cell of its own
CloneMeta(hp, meta) ==
    IF meta = 0 THEN [hp |-> hp, h |-> 0]
    ELSE Alloc(hp, MetaCell(hp[meta].entries))

\* Value::deep_copy
DeepCopy(v, hp) ==
    CASE v.t = "List" ->
            LET r == DeepCopyItems(hp[v.h].items, 1, <<>>, hp)
                a == Alloc(r.hp, ListCell(r.items))
            IN  [hp |-> a.hp, v |-> ListOf(a.h)]
      [] v.t = "Tuple" ->
            LET r == DeepCopyItems(v.elems, 1, <<>>, hp)
            IN  [hp |-> r.hp, v |-> TupleOf(r.items)]
      [] v.t = "Map" ->
            LET r == DeepCopyEntries(hp[v.h].entries,
                                     DOMAIN hp[v.h].entries, EmptyMap, hp)
                m == CloneMeta(r.hp, hp[v.h].meta)
                a == Alloc(m.hp, MapCell(r.entries, m.h))
            IN  [hp |-> a.hp, v |-> MapOf(a.h)]
      [] OTHER -> [hp |-> hp, v |-> v]

RECURSIVE Reach(_, _), Deref(_, _)

ReachAll(values, hp) == UNION {Reach(values[x], hp) : x \in DOMAIN values}

\* the handles of the mutable cells reachable from v
Reach(v, hp) ==
    CASE v.t = "List" -> {v.h} \cup ReachAll(hp[v.h].items, hp)
      [] v.t = "Tuple" -> ReachAll(v.elems, hp)
      [] v.t = "Map" ->
            {v.h} \cup ReachAll(hp[v.h].entries, hp)
            \cup (IF hp[v.h].meta = 0 THEN {}
                  ELSE {hp[v.h].meta}
                       \cup ReachAll(hp[hp[v.h].meta].entries, hp))
      [] v.t \in {"Function", "Generator"} ->
            IF v.captures = 0 THEN {}
            ELSE {v.captures} \cup ReachAll(hp[v.captures].items, hp)
      [] OTHER -> {}

DerefAll(values, hp) == [x \in DOMAIN values |-> Deref(values[x], hp)]

\* what can be observed through v: the value with every handle replaced by
\* the contents of its cell
Deref(v, hp) ==
    CASE v.t = "List" -> [t |-> "List", elems |-> DerefAll(hp[v.h].items, hp)]
      [] v.t = "Tuple" -> [t |-> "Tuple", elems |-> DerefAll(v.elems, hp)]
      [] v.t = "Map" ->
            [t |-> "Map", entries |-> DerefAll(hp[v.h].entries, hp),
             meta |-> IF hp[v.h].meta = 0 THEN None
                      ELSE Some(DerefAll(hp[hp[v.h].meta].entries, hp))]
      [] v.t \in {"Function", "Generator"} ->
            [t |-> v.t,
             captured |-> IF v.captures = 0 THEN None
                          ELSE Some(DerefAll(hp[v.captures].items, hp))]
      [] OTHER -> v

\* the Values that are copied: a value and the heap it lives in
CopyInputs ==
    { [v |-> Integer(1), hp |-> <<>>],
      [v |-> ListOf(1), hp |-> <<ListCell(<<Integer(1), Text("a")>>)>>],
      [v |-> ListOf(1),
       hp |-> <<ListCell(<<ListOf(2), Integer(3)>>), ListCell(<<Integer(1)>>)>>],
      [v |-> ListOf(1),
       hp |-> <<ListCell(<<ListOf(2), ListOf(2)>>), ListCell(<<Integer(1)>>)>>],
      [v |-> TupleOf(<<ListOf(1), Integer(2)>>), hp |-> <<ListCell(<<Integer(1)>>)>>],
      [v |-> MapOf(1),
       hp |-> <<MapCell([k \in {"a"} |-> ListOf(2)], 0),
                ListCell(<<Integer(1)>>)>>],
      [v |-> MapOf(1),
       hp |-> <<MapCell([k \in {"a"} |-> Integer(1)], 2),
                MetaCell([k \in {"Type"} |-> Text("T")])>>],
      [v |-> MapOf(1),
       hp |-> <<MapCell([k \in {"a"} |-> Integer(1)], 2),
                MetaCell([k \in {"data"} |-> ListOf(3)]),
                ListCell(<<Integer(1)>>)>>],
      [v |-> ListOf(1),
       hp |-> <<ListCell(<<FunctionOf(2)>>), ListCell(<<Integer(5)>>)>>],
      [v |-> MapOf(1),
       hp |-> <<MapCell([k \in {"g"} |-> GeneratorOf(2)], 0),
                ListCell(<<Integer(5)>>)>>],
      [v |-> ListOf(1), hp |-> <<ListCell(<<FunctionOf(0)>>)>>] }

\* number of writes after the copy
MaxWrites == 2

Side(name) == IF name = "original" THEN original ELSE copied[1]

\* koto.deep_copy(original)
CopyValue ==
    /\ copied = None
    /\ heap # <<>> \/ original # Null
    /\ LET r == DeepCopy(original, heap)
       IN  /\ heap' = r.hp
           /\ copied' = Some(r.v)
    /\ snapshot' = Deref(original, heap)
    /\ UNCHANGED <<original, touched>>
    /\ UNCHANGED runtimeVars
    /\ UNCHANGED queryVars
    /\ UNCHANGED vmVars

\* a write through one side: data_mut() of a List reachable from it, then push
WriteList(name, h, value) ==
    /\ copied # None
    /\ Len(touched) < MaxWrites
    /\ h \in Reach(Side(name), heap)
    /\ heap[h].kind = "List"
    /\ heap' = [heap EXCEPT ![h].items = Append(@, value)]
    /\ touched' = Append(touched, <<name, h>>)
    /\ UNCHANGED <<original, copied, snapshot>>
    /\ UNCHANGED runtimeVars
    /\ UNCHANGED queryVars
    /\ UNCHANGED vmVars

\* a write through one side: an insert into a Map or meta map reachable from it
WriteMap(name, h, key, value) ==
    /\ copied # None
    /\ Len(touched) < MaxWrites
    /\ h \in Reach(Side(name), heap)
    /\ heap[h].kind \in {"Map", "Meta"}
    /\ heap' = [heap EXCEPT ![h].entries = MapInsert(@, key, value)]
    /\ touched' = Append(touched, <<name, h>>)
    /\ UNCHANGED <<original, copied, snapshot>>
    /\ UNCHANGED runtimeVars
    /\ UNCHANGED queryVars
    /\ UNCHANGED vmVars

ValueInit ==
    /\ \E input \in CopyInputs : heap = input.hp /\ original = input.v
    /\ subject = Null
    /\ answer = None
    /\ NoVm
    /\ copied = None
    /\ snapshot = Null
    /\ touched = <<>>
    /\ float_cast = "saturate"
    /\ global = Builtins
    /\ call_stack = [frames |-> <<>>, pending |-> <<>>]
    /\ value_stack = [values |-> <<>>, frames |-> <<>>]
    /\ result = [err |-> "", v |-> Empty]
    /\ log = <<>>
    /\ calls = <<>>
    /\ indexings = <<>>
    /\ map_sets = <<>>
    /\ script = <<>>
    /\ runs = 0

ValueNext ==
    \/ CopyValue
    \/ \E name \in {"original", "copy"}, h \in DOMAIN heap :
          WriteList(name, h, Integer(9))
    \/ \E name \in {"original", "copy"}, h \in DOMAIN heap :
          WriteMap(name, h, "z", Integer(9))

SpecValues == ValueInit /\ [][ValueNext]_vars

----------------------------------------------------------------------------
(* The predicates of a core Value (value.rs) *)

BoolOf(b) == [t |-> "Bool", b |-> b]
IntRange(start, end) == [t |-> "Range", start |-> start, end |-> end]
\* a variant whose payload no predicate looks at: SimpleFunction,
\* ExternalFunction, Iterator, Object, TemporaryTuple, SequenceBuilder,
\* StringBuilder
Plain(variant) == [t |-> variant]

RECURSIVE IsHashable(_)

\* ValueTuple::is_hashable
TupleIsHashable(elems) == \A i \in DOMAIN elems : IsHashable(elems[i])

\* is_hashable that also accepts a List
IsHashable_AcceptsList(v) ==
    CASE v.t \in {"Null", "Bool", "Number", "Range", "Str", "List"} -> TRUE
      [] v.t = "Tuple" -> TupleIsHashable(v.elems)
      [] OTHER -> FALSE

\* Value::is_hashable
IsHashable(v) ==
    CASE v.t \in {"Null", "Bool", "Number", "Range", "Str"} -> TRUE
      [] v.t = "Tuple" -> TupleIsHashable(v.elems)
      [] OTHER -> FALSE

\* ValueMap::contains_meta_key
ContainsMetaKey(m, key, hp) ==
    hp[m.h].meta # 0 /\ key \in DOMAIN hp[hp[m.h].meta].entries

\* Value::is_callable
IsCallable(v, hp) ==
    CASE v.t \in {"SimpleFunction", "Function", "ExternalFunction"} -> TRUE
      [] v.t = "Map" -> ContainsMetaKey(v, "Call", hp)
      [] OTHER -> FALSE

\* the cells the Values of PredicateInputs point to: a List, a Map, a Map
\* with a Call entry in its meta map, a Map with a meta map without one
PredicateHeap ==
    << ListCell(<<Integer(1)>>),
       MapCell([k \in {"a"} |-> Integer(1)], 0),
       MapCell(EmptyMap, 4),
       MetaCell([k \in {"Call"} |-> FunctionOf(0)]),
       MapCell(EmptyMap, 6),
       MetaCell([k \in {"Type"} |-> Text("T")]) >>

\* one Value of every variant
Variants ==
    { Null, BoolOf(TRUE), Integer(1), IntRange(0, 2), Text("a"),
      ListOf(1), MapOf(2), MapOf(3), MapOf(5),
      Plain("SimpleFunction"), FunctionOf(0), Plain("ExternalFunction"),
      GeneratorOf(0), Plain("Iterator"), Plain("Object"),
      Plain("TemporaryTuple"), Plain("SequenceBuilder"),
      Plain("StringBuilder") }

\* the variants, and Tuples of them up to depth 2
PredicateInputs ==
    Variants
    \cup {TupleOf(<<>>)}
    \cup {TupleOf(<<v>>) : v \in Variants}
    \cup {TupleOf(<<Integer(1), v>>) : v \in Variants}
    \cup {TupleOf(<<TupleOf(<<v>>)>>) : v \in Variants}
    \cup {TupleOf(<<Text("a"), TupleOf(<<Integer(1), v>>)>>) : v \in Variants}

\* a Runtime on which nothing has run
IdleRuntime ==
    /\ float_cast = "saturate"
    /\ global = Builtins
    /\ call_stack = [frames |-> <<>>, pending |-> <<>>]
    /\ value_stack = [values |-> <<>>, frames |-> <<>>]
    /\ result = [err |-> "", v |-> Empty]
    /\ log = <<>>
    /\ calls = <<>>
    /\ indexings = <<>>
    /\ map_sets = <<>>
    /\ script = <<>>
    /\ runs = 0

PredicateInit ==
    /\ IdleRuntime
    /\ heap = PredicateHeap
    /\ original = Null
    /\ copied = None
    /\ snapshot = Null
    /\ touched = <<>>
    /\ subject \in PredicateInputs
    /\ answer = None
    /\ NoVm

\* the predicates are applied to subject
ApplyPredicates ==
    /\ answer = None
    /\ answer' = Some([is_hashable |-> IsHashable(subject),
                       is_callable |-> IsCallable(subject, heap)])
    /\ UNCHANGED subject
    /\ UNCHANGED vmVars
    /\ UNCHANGED runtimeVars
    /\ UNCHANGED valueVars

SpecPredicates == PredicateInit /\ [][ApplyPredicates]_vars

----------------------------------------------------------------------------
(* Access to a cell that is mutably borrowed.  `borrowed` is the set of     *)
(* handles whose cell has a live mutable borrow when the method is called.  *)

FloatOf(n) == [t |-> "Number", n |-> n, float |-> TRUE]
ObjectOf(h) == [t |-> "Object", h |-> h]
BuiltinValueOf(h) == [t |-> "BuiltinValue", h |-> h]
ObjectCell(type) == [kind |-> "Object", type |-> type]

\* PtrMut::borrow, PtrMut::borrow_mut and RefCell::borrow_mut on cell h
Borrow(h, borrowed) == IF h \in borrowed THEN "panic" ELSE "ok"

\* PtrMut::try_borrow on cell h
TryBorrow(h, borrowed) == IF h \in borrowed THEN "error" ELSE "ok"

\* the `?` over a sequence of outcomes: the first that is not "ok"
FirstFailure(outcomes) ==
    IF \A i \in DOMAIN outcomes : outcomes[i] = "ok" THEN "ok"
    ELSE outcomes[CHOOSE i \in DOMAIN outcomes :
                     /\ outcomes[i] # "ok"
                     /\ \A j \in DOMAIN outcomes :
                           outcomes[j] # "ok" => i <= j]

RECURSIVE DeepCopyAccess(_, _, _)
\* Value::deep_copy, the cells it borrows: "ok", "error" (Err returned) or
\* "panic"
DeepCopyAccess(v, hp, borrowed) ==
    CASE v.t = "List" ->
            FirstFailure(<<Borrow(v.h, borrowed)>> \o
                         [i \in DOMAIN hp[v.h].items |->
                            DeepCopyAccess(hp[v.h].items[i], hp, borrowed)])
      [] v.t = "Tuple" ->
            FirstFailure([i \in DOMAIN v.elems |->
                            DeepCopyAccess(v.elems[i], hp, borrowed)])
      [] v.t = "Map" ->
            IF Borrow(v.h, borrowed) # "ok" THEN Borrow(v.h, borrowed)
            ELSE IF \E k \in DOMAIN hp[v.h].entries :
                       DeepCopyAccess(hp[v.h].entries[k], hp, borrowed) # "ok"
            THEN LET k == CHOOSE k \in DOMAIN hp[v.h].entries :
                            DeepCopyAccess(hp[v.h].entries[k], hp, borrowed)
                                # "ok"
                 IN  DeepCopyAccess(hp[v.h].entries[k], hp, borrowed)
            ELSE IF hp[v.h].meta = 0 THEN "ok"
            ELSE Borrow(hp[v.h].meta, borrowed)
      [] v.t = "Object" -> TryBorrow(v.h, borrowed)
      [] OTHER -> "ok"

\* ValueMap::get_meta_value
GetMetaValue(m, key, hp) ==
    IF ContainsMetaKey(m, key, hp)
    THEN Some(hp[hp[m.h].meta].entries[key])
    ELSE None

\* type_as_string with TYPE_FUNCTION in the arm of Generator
TypeAsString_GeneratorAsFunction(v, hp, borrowed) ==
    CASE v.t = "Null" -> "Null"
      [] v.t = "Bool" -> "Bool"
      [] v.t = "Number" ->
            IF "float" \in DOMAIN v THEN "Float" ELSE "Int"
      [] v.t = "List" -> "List"
      [] v.t = "Range" -> "Range"
      [] v.t = "Map" ->
            IF hp[v.h].meta # 0
            THEN IF GetMetaValue(v, "Type", hp) = None THEN "Object"
                 ELSE IF GetMetaValue(v, "Type", hp)[1].t = "Str"
                 THEN GetMetaValue(v, "Type", hp)[1].s
                 ELSE "Error: expected string for overloaded type"
            ELSE "Map"
      [] v.t = "Str" -> "String"
      [] v.t = "Tuple" -> "Tuple"
      [] v.t \in {"SimpleFunction", "Function"} -> "Function"
      [] v.t = "Generator" -> "Function"
      [] v.t = "ExternalFunction" -> "ExternalFunction"
      [] v.t = "Object" ->
            IF TryBorrow(v.h, borrowed) = "ok" THEN hp[v.h].type
            ELSE "Error: object already borrowed"
      [] v.t = "Iterator" -> "Iterator"
      [] v.t = "TemporaryTuple" -> "TemporaryTuple"
      [] v.t = "SequenceBuilder" -> "SequenceBuilder"
      [] v.t = "StringBuilder" -> "StringBuilder"

\* Value::type_as_string
TypeAsString(v, hp, borrowed) ==
    CASE v.t = "Null" -> "Null"
      [] v.t = "Bool" -> "Bool"
      [] v.t = "Number" ->
            IF "float" \in DOMAIN v THEN "Float" ELSE "Int"
      [] v.t = "List" -> "List"
      [] v.t = "Range" -> "Range"
      [] v.t = "Map" ->
            IF hp[v.h].meta # 0
            THEN IF GetMetaValue(v, "Type", hp) = None THEN "Object"
                 ELSE IF GetMetaValue(v, "Type", hp)[1].t = "Str"
                 THEN GetMetaValue(v, "Type", hp)[1].s
                 ELSE "Error: expected string for overloaded type"
            ELSE "Map"
      [] v.t = "Str" -> "String"
      [] v.t = "Tuple" -> "Tuple"
      [] v.t \in {"SimpleFunction", "Function"} -> "Function"
      [] v.t = "Generator" -> "Generator"
      [] v.t = "ExternalFunction" -> "ExternalFunction"
      [] v.t = "Object" ->
            IF TryBorrow(v.h, borrowed) = "ok" THEN hp[v.h].type
            ELSE "Error: object already borrowed"
      [] v.t = "Iterator" -> "Iterator"
      [] v.t = "TemporaryTuple" -> "TemporaryTuple"
      [] v.t = "SequenceBuilder" -> "SequenceBuilder"
      [] v.t = "StringBuilder" -> "StringBuilder"

\* Value::is_iterable (an Object that can be borrowed says it is iterable)
IsIterable(v, borrowed) ==
    CASE v.t \in {"Range", "List", "Tuple", "Map", "Str", "Iterator"} -> TRUE
      [] v.t = "Object" -> TryBorrow(v.h, borrowed) = "ok"
      [] OTHER -> FALSE

\* visit_builtin_value on the instance `map`: "panic", or what it returns
VisitBuiltinValue(map, type, hp, borrowed) ==
    IF "_builtin_data" \notin DOMAIN hp[map.h].entries
    THEN "Builtin value not found"
    ELSE IF hp[map.h].entries["_builtin_data"].t # "BuiltinValue"
    THEN "Builtin value not found"
    ELSE LET h == hp[map.h].entries["_builtin_data"].h
         IN  IF Borrow(h, borrowed) # "ok" THEN Borrow(h, borrowed)
             ELSE IF hp[h].type = type THEN "ok"
             ELSE IF Borrow(h, borrowed \cup {h}) # "ok"
             THEN Borrow(h, borrowed \cup {h})
             ELSE "Invalid type for builtin value"

\* the method `method` called on v: what happened ("returned" or "panic")
\* and the value returned
Access(method, v, hp, borrowed) ==
    CASE method = "deep_copy" ->
            IF DeepCopyAccess(v, hp, borrowed) = "panic"
            THEN [outcome |-> "panic", value |-> "none"]
            ELSE [outcome |-> "returned",
                  value |-> IF DeepCopyAccess(v, hp, borrowed) = "ok"
                            THEN "Ok" ELSE "Err"]
      [] method = "type_as_string" ->
            [outcome |-> "returned", value |-> TypeAsString(v, hp, borrowed)]
      [] method = "is_iterable" ->
            [outcome |-> "returned",
             value |-> IF IsIterable(v, borrowed) THEN "true" ELSE "false"]
      [] method \in {"len", "data", "data_mut"} ->
            IF Borrow(v.h, borrowed) = "panic"
            THEN [outcome |-> "panic", value |-> "none"]
            ELSE [outcome |-> "returned", value |-> "Ok"]
      [] method = "visit_builtin_value" ->
            IF VisitBuiltinValue(v, "T", hp, borrowed) = "panic"
            THEN [outcome |-> "panic", value |-> "none"]
            ELSE [outcome |-> "returned",
                  value |-> IF VisitBuiltinValue(v, "T", hp, borrowed) = "ok"
                            THEN "Ok" ELSE "Err"]

\* a List holding a List, a Map with a List and a meta map, an Object, and
\* two instances of builtin values
BorrowHeap ==
    << ListCell(<<Integer(1), ListOf(2)>>),
       ListCell(<<>>),
       MapCell([k \in {"a"} |-> ListOf(2)], 4),
       MetaCell([k \in {"Type"} |-> Text("T")]),
       ObjectCell("Thing"),
       MapCell([k \in {"_builtin_data"} |-> BuiltinValueOf(7)], 0),
       ObjectCell("T"),
       MapCell([k \in {"_builtin_data"} |-> BuiltinValueOf(9)], 0),
       ObjectCell("U") >>

\* the methods and the Values they are called on
BorrowCalls ==
    ({"deep_copy", "type_as_string", "is_iterable"}
        \X {Integer(1), ListOf(1), ListOf(2), MapOf(3), ObjectOf(5),
            TupleOf(<<ListOf(2), ObjectOf(5)>>)})
    \cup ({"len", "data", "data_mut"} \X {ListOf(1), ListOf(2)})
    \cup ({"visit_builtin_value"} \X {MapOf(6), MapOf(8), MapOf(3)})

BorrowInit ==
    /\ IdleRuntime
    /\ heap = BorrowHeap
    /\ original = Null
    /\ copied = None
    /\ snapshot = Null
    /\ touched = <<>>
    /\ \E c \in BorrowCalls, h \in 0..Len(BorrowHeap) :
          subject = [method |-> c[1], v |-> c[2],
                     borrowed |-> IF h = 0 THEN {} ELSE {h}]
    /\ answer = None
    /\ NoVm

\* the method is called while the cells of subject.borrowed are borrowed
CallWhileBorrowed ==
    /\ answer = None
    /\ answer' = Some(Access(subject.method, subject.v, heap,
                             subject.borrowed))
    /\ UNCHANGED subject
    /\ UNCHANGED vmVars
    /\ UNCHANGED runtimeVars
    /\ UNCHANGED valueVars

SpecBorrows == BorrowInit /\ [][CallWhileBorrowed]_vars

\* Maps without a meta map, with a meta map whose Type entry is a string
\* (one of them the name of a built-in type), with a meta map without a Type
\* entry, with a meta map whose Type entry is a Number; a List; Objects
TypeHeap ==
    << ListCell(<<Integer(1)>>),
       MapCell(EmptyMap, 0),
       MapCell([k \in {"a"} |-> Integer(1)], 0),
       MapCell(EmptyMap, 5),
       MetaCell([k \in {"Type"} |-> Text("T")]),
       MapCell([k \in {"a"} |-> Integer(1)], 7),
       MetaCell([k \in {"Type", "Call"} |->
                    IF k = "Type" THEN Text("List") ELSE FunctionOf(0)]),
       MapCell(EmptyMap, 9),
       MetaCell([k \in {"Call"} |-> FunctionOf(0)]),
       MapCell(EmptyMap, 11),
       MetaCell([k \in {"Type"} |-> Integer(1)]),
       ObjectCell("Thing"),
       ObjectCell("List"),
       ObjectCell("Thing") >>

\* the cells of TypeHeap that are Objects
TypeObjects == {h \in 1..Len(TypeHeap) : TypeHeap[h].kind = "Object"}

\* Values of every variant, two or more of each
TypeInputs ==
    { Null, BoolOf(TRUE), BoolOf(FALSE),
      Integer(0), Integer(1), FloatOf(0), FloatOf(1),
      IntRange(0, 2), IntRange(1, 1), Text("a"), Text("Map"),
      ListOf(1), TupleOf(<<>>), TupleOf(<<Integer(1)>>),
      MapOf(2), MapOf(3), MapOf(4), MapOf(6), MapOf(8), MapOf(10),
      Plain("SimpleFunction"), FunctionOf(0), FunctionOf(1),
      Plain("ExternalFunction"), GeneratorOf(0), GeneratorOf(1),
      Plain("Iterator"), Plain("TemporaryTuple"), Plain("SequenceBuilder"),
      Plain("StringBuilder") }
    \cup {ObjectOf(h) : h \in TypeObjects}

TypeInit ==
    /\ IdleRuntime
    /\ heap = TypeHeap
    /\ original = Null
    /\ copied = None
    /\ snapshot = Null
    /\ touched = <<>>
    /\ \E v \in TypeInputs, w \in TypeInputs, h \in TypeObjects \cup {0} :
          subject = [v |-> v, w |-> w,
                     borrowed |-> IF h = 0 THEN {} ELSE {h}]
    /\ answer = None
    /\ NoVm

\* type_as_string is called on both Values of subject
AskTypes ==
    /\ answer = None
    /\ answer' = Some([v |-> TypeAsString(subject.v, heap, subject.borrowed),
                       w |-> TypeAsString(subject.w, heap, subject.borrowed)])
    /\ UNCHANGED subject
    /\ UNCHANGED vmVars
    /\ UNCHANGED runtimeVars
    /\ UNCHANGED valueVars

SpecTypes == TypeInit /\ [][AskTypes]_vars

\* the Lists [], [10], [10, 11], [10, 11, 12]
SliceLists == {[i \in 1..n |-> VNumber(9 + i)] : n \in 0..3}

\* the Ranges min..max that Node::Range builds around such a List
SliceRanges == {r \in (-1..4) \X (-1..4) : r[1] <= r[2]}

SliceInit ==
    /\ IdleRuntime
    /\ heap = <<>>
    /\ original = Null
    /\ copied = None
    /\ snapshot = Null
    /\ touched = <<>>
    /\ \E l \in SliceLists, r \in SliceRanges :
          subject = [list |-> l, min |-> r[1], max |-> r[2]]
    /\ answer = None
    /\ NoVm

\* list[min..max] is read, and list[min..max] = 0 is written, on the same List
ReadAndWriteSlice ==
    /\ answer = None
    /\ answer' = Some([read |-> ListGetRange(subject.list, subject.min,
                                             subject.max),
                       write |-> ListSetRange(subject.list, subject.min,
                                              subject.max, VNumber(0))])
    /\ UNCHANGED subject
    /\ UNCHANGED vmVars
    /\ UNCHANGED runtimeVars
    /\ UNCHANGED valueVars

SpecSlices == SliceInit /\ [][ReadAndWriteSlice]_vars

----------------------------------------------------------------------------
(* Node::Op on two evaluated operands (runtime.rs) *)

AstOps ==
    {"Add", "Subtract", "Multiply", "Divide", "Modulo", "Equal", "NotEqual",
     "Less", "LessOrEqual", "Greater", "GreaterOrEqual", "And", "Or"}

OrderingOps == {"Less", "LessOrEqual", "Greater", "GreaterOrEqual"}

\* operands of every variant a script can produce
Operands ==
    {Empty, VBool(TRUE), VBool(FALSE), VNumber(0), VNumber(1), VNumber(-3),
     VFloat(1, "frac"), VStr("a"), VStr("b"), VRange(0, 2), VRange(1, 2),
     VList(<<>>), VList(<<VNumber(1)>>), VList(<<VNumber(2)>>),
     VMap([x \in {"a"} |-> VNumber(1)]), VExternalFunction("print")}

OpInit ==
    /\ IdleRuntime
    /\ heap = <<>>
    /\ original = Null
    /\ copied = None
    /\ snapshot = Null
    /\ touched = <<>>
    /\ \E op \in AstOps, a \in Operands, b \in Operands :
          subject = [op |-> op, a |-> a, b |-> b]
    /\ answer = None
    /\ NoVm

\* the match of Node::Op on the operator and the two operands
ApplyOp ==
    /\ answer = None
    /\ answer' = Some(BinaryOp(subject.op, subject.a, subject.b))
    /\ UNCHANGED subject
    /\ UNCHANGED vmVars
    /\ UNCHANGED runtimeVars
    /\ UNCHANGED valueVars

SpecOps == OpInit /\ [][ApplyOp]_vars

----------------------------------------------------------------------------
(* Generators: a call of Value::Generator spawns a child Vm that runs the   *)
(* function up to its next yield (Vm::call_generator, Iterable::Generator). *)
(* A chunk is a sequence of instructions over the registers of its Vm.      *)

Set(r, n) == [op |-> "Set", r |-> r, n |-> n]
Inc(r) == [op |-> "Inc", r |-> r]
JumpIfLess(r, n, to) == [op |-> "JumpIfLess", r |-> r, n |-> n, to |-> to]
Yield(r) == [op |-> "Yield", r |-> r]
Return(r) == [op |-> "Return", r |-> r]

\* the Generator of a chunk
GeneratorFn(chunk) == [t |-> "Generator", chunk |-> chunk]

\* the Iterator that holds the child Vm
GeneratorIterator == [t |-> "Iterator", of |-> "Generator"]

\* the child Vm of a call: the shared chunk, registers seeded with the
\* argument, one frame at the function entry
SpawnVm(chunk, arg) ==
    [chunk |-> chunk, registers |-> <<arg, 0>>, frames |-> 1, ip |-> 1,
     done |-> FALSE]

\* one instruction of a Vm that is not done: the Vm after it and what it
\* yields (None when the instruction is not a Yield)
Execute(vm) ==
    IF vm.ip > Len(vm.chunk)
    THEN [vm |-> [vm EXCEPT !.done = TRUE, !.frames = 0], out |-> None]
    ELSE LET i == vm.chunk[vm.ip]
         IN  CASE i.op = "Set" ->
                    [vm |-> [vm EXCEPT !.registers[i.r] = i.n,
                                       !.ip = @ + 1],
                     out |-> None]
               [] i.op = "Inc" ->
                    [vm |-> [vm EXCEPT !.registers[i.r] = @ + 1,
                                       !.ip = @ + 1],
                     out |-> None]
               [] i.op = "JumpIfLess" ->
                    [vm |-> [vm EXCEPT !.ip = IF vm.registers[i.r] < i.n
                                              THEN i.to ELSE @ + 1],
                     out |-> None]
               [] i.op = "Yield" ->
                    [vm |-> [vm EXCEPT !.ip = @ + 1],
                     out |-> Some(vm.registers[i.r])]
               [] i.op = "Return" ->
                    [vm |-> [vm EXCEPT !.done = TRUE, !.frames = 0],
                     out |-> None]

RECURSIVE RunToYield(_, _)
\* the instruction loop of a Vm: it runs to its next Yield (Some(value)) or
\* to the end of the function (None)
RunToYield(vm, fuel) ==
    IF vm.done \/ fuel = 0 THEN [vm |-> vm, out |-> None]
    ELSE IF Execute(vm).out # None THEN Execute(vm)
    ELSE RunToYield(Execute(vm).vm, fuel - 1)

\* next on the iterator, with the Vm starting again at its first instruction
Resume_FromEntry(vm, fuel) == RunToYield([vm EXCEPT !.ip = 1], fuel)

\* next on the iterator: the child Vm runs from where it stopped; None is
\* Done
Resume(vm, fuel) == RunToYield(vm, fuel)

\* i = 0; while i < 2 { yield i; i += 1 }
CountChunk ==
    <<Set(2, 0), JumpIfLess(2, 2, 4), Return(2), Yield(2), Inc(2),
      JumpIfLess(2, 9, 2)>>

\* the functions that are called as Generators (register 1 is the argument)
Chunks ==
    { <<>>,
      <<Yield(1), Return(1)>>,
      <<Yield(1), Inc(1), Yield(1), Inc(1), Yield(1)>>,
      <<Return(1), Yield(1)>>,
      <<Set(2, 7), Yield(2), Yield(1)>>,
      CountChunk }

\* register files of the caller: the function, the argument, the result
CallerVms ==
    { [registers |-> <<GeneratorFn(chunk), arg, Empty>>, frames |-> frames] :
        chunk \in Chunks, arg \in 0..1, frames \in 1..2 }

GeneratorInit ==
    /\ IdleRuntime
    /\ heap = <<>>
    /\ original = Null
    /\ copied = None
    /\ snapshot = Null
    /\ touched = <<>>
    /\ subject = Null
    /\ answer = None
    /\ caller_vm \in CallerVms
    /\ generator_vm = None
    /\ outputs = <<>>

\* Call of the Generator in register 1 with the argument in register 2: the
\* child Vm is spawned and the iterator is the result; no instruction runs
CallGenerator ==
    /\ generator_vm = None
    /\ generator_vm' = Some(SpawnVm(caller_vm.registers[1].chunk,
                                    caller_vm.registers[2]))
    /\ caller_vm' = [caller_vm EXCEPT !.registers[3] = GeneratorIterator]
    /\ UNCHANGED outputs
    /\ UNCHANGED runtimeVars
    /\ UNCHANGED valueVars
    /\ UNCHANGED queryVars

\* IterNext on the iterator
IterNext ==
    /\ generator_vm # None
    /\ Len(outputs) < MaxNexts
    /\ generator_vm' = Some(Resume(generator_vm[1], MaxSteps).vm)
    /\ outputs' = Append(outputs, Resume(generator_vm[1], MaxSteps).out)
    /\ UNCHANGED caller_vm
    /\ UNCHANGED runtimeVars
    /\ UNCHANGED valueVars
    /\ UNCHANGED queryVars

SpecGenerators == GeneratorInit /\ [][CallGenerator \/ IterNext]_vars

----------------------------------------------------------------------------
(* The command line (cli/src/main.rs) *)

\* what Koto::run_script_with_args can return for the script of a file
ScriptResults == {"Ok", "Err: runtime error", "Err: parse error"}

\* command lines: the two flags, the script path (None when absent), the
\* arguments after `--`, whether the file can be read, what its script does
CommandLines ==
    { [show_bytecode |-> b, show_annotated |-> a, script |-> path,
       args |-> args, readable |-> readable, script_result |-> res] :
        b \in BOOLEAN, a \in BOOLEAN,
        path \in {None, Some("script.koto")},
        args \in {<<>>, <<"1">>, <<"1", "2">>},
        readable \in BOOLEAN, res \in ScriptResults }

\* main: what the process has done when it ends
Main(cli) ==
    IF cli.script # None
    THEN IF ~cli.readable
         THEN [exit_code |-> 101, stderr |-> <<"Unable to load path">>,
               scripts_run |-> 0, repl_started |-> FALSE]
         ELSE [exit_code |-> 0,
               stderr |-> IF cli.script_result = "Ok" THEN <<>>
                          ELSE <<cli.script_result>>,
               scripts_run |-> 1, repl_started |-> FALSE]
    ELSE [exit_code |-> 0, stderr |-> <<>>, scripts_run |-> 0,
          repl_started |-> TRUE]

CliInit ==
    /\ IdleRuntime
    /\ heap = <<>>
    /\ original = Null
    /\ copied = None
    /\ snapshot = Null
    /\ touched = <<>>
    /\ subject \in CommandLines
    /\ answer = None
    /\ NoVm

\* the process runs main and ends
RunMain ==
    /\ answer = None
    /\ answer' = Some(Main(subject))
    /\ UNCHANGED subject
    /\ UNCHANGED vmVars
    /\ UNCHANGED runtimeVars
    /\ UNCHANGED valueVars

SpecCli == CliInit /\ [][RunMain]_vars

----------------------------------------------------------------------------
(* The closures of assert and assert_eq (std/src/lib.rs) *)

AssertValues == {VBool(TRUE), VBool(FALSE), VNumber(1), VNumber(2), VStr("a")}

\* argument lists of up to three values
AssertArguments ==
    UNION { [1..n -> AssertValues] : n \in 0..3 }

AssertInit ==
    /\ IdleRuntime
    /\ heap = <<>>
    /\ original = Null
    /\ copied = None
    /\ snapshot = Null
    /\ touched = <<>>
    /\ \E name \in {"assert", "assert_eq"}, args \in AssertArguments :
          subject = [name |-> name, args |-> args]
    /\ answer = None
    /\ NoVm

\* the closure registered under subject.name is called with subject.args
CallClosure ==
    /\ answer = None
    /\ answer' = Some(ExternalCall(subject.name, subject.args))
    /\ UNCHANGED subject
    /\ UNCHANGED vmVars
    /\ UNCHANGED runtimeVars
    /\ UNCHANGED valueVars

SpecAsserts == AssertInit /\ [][CallClosure]_vars

\* the values compared by assert_eq and assert_ne, NaN among them
ComparedValues == AssertValues \cup {VFloat(0, "nan")}

ComparedArguments ==
    UNION { [1..n -> ComparedValues] : n \in 0..3 }

CompareInit ==
    /\ IdleRuntime
    /\ heap = <<>>
    /\ original = Null
    /\ copied = None
    /\ snapshot = Null
    /\ touched = <<>>
    /\ \E args \in ComparedArguments : subject = [args |-> args]
    /\ answer = None
    /\ NoVm

\* assert_eq and assert_ne are called with the same argument list
CallEqAndNe ==
    /\ answer = None
    /\ answer' = Some([eq |-> ExternalCall("assert_eq", subject.args),
                       ne |-> ExternalCall("assert_ne", subject.args)])
    /\ UNCHANGED subject
    /\ UNCHANGED vmVars
    /\ UNCHANGED runtimeVars
    /\ UNCHANGED valueVars

SpecCompare == CompareInit /\ [][CallEqAndNe]_vars

----------------------------------------------------------------------------
(* The toml module (libs/toml/src/lib.rs).  A document is the toml::Value   *)
(* that toml::to_string_pretty writes and toml::from_str reads back.        *)

TomlBoolean(b) == [toml |-> "Boolean", b |-> b]
TomlInteger(n) == [toml |-> "Integer", n |-> n]
TomlFloat(n) == [toml |-> "Float", n |-> n]
TomlString(str) == [toml |-> "String", s |-> str]
TomlArray(items) == [toml |-> "Array", items |-> items]
TomlTable(entries) == [toml |-> "Table", entries |-> entries]
TomlDatetime(str) == [toml |-> "Datetime", s |-> str]

RECURSIVE TomlToKotoValue(_, _), TomlItems(_, _, _, _),
          TomlEntries(_, _, _, _)

\* a.iter().map(toml_to_koto_value).collect()
TomlItems(items, i, done, hp) ==
    IF i > Len(items) THEN [hp |-> hp, items |-> done]
    ELSE LET r == TomlToKotoValue(items[i], hp)
         IN  TomlItems(items, i + 1, Append(done, r.v), r.hp)

\* for (key, value) in o.iter() { map.add_value(key, ...) }
TomlEntries(entries, keys, done, hp) ==
    IF keys = {} THEN [hp |-> hp, entries |-> done]
    ELSE LET key == CHOOSE x \in keys : TRUE
             r == TomlToKotoValue(entries[key], hp)
         IN  TomlEntries(entries, keys \ {key},
                         MapInsert(done, key, r.v), r.hp)

\* toml_to_koto_value
TomlToKotoValue(value, hp) ==
    CASE value.toml = "Boolean" -> [hp |-> hp, v |-> BoolOf(value.b)]
      [] value.toml = "Integer" -> [hp |-> hp, v |-> Integer(value.n)]
      [] value.toml = "Float" -> [hp |-> hp, v |-> FloatOf(value.n)]
      [] value.toml = "String" -> [hp |-> hp, v |-> Text(value.s)]
      [] value.toml = "Array" ->
            LET r == TomlItems(value.items, 1, <<>>, hp)
                a == Alloc(r.hp, ListCell(r.items))
            IN  [hp |-> a.hp, v |-> ListOf(a.h)]
      [] value.toml = "Table" ->
            LET r == TomlEntries(value.entries, DOMAIN value.entries,
                                 EmptyMap, hp)
                a == Alloc(r.hp, MapCell(r.entries, 0))
            IN  [hp |-> a.hp, v |-> MapOf(a.h)]
      [] value.toml = "Datetime" -> [hp |-> hp, v |-> Text(value.s)]

RECURSIVE Serialize(_, _, _)

\* the documents of a sequence or of the entries of a map
SerializeAll(values, hp, unit) ==
    [x \in DOMAIN values |-> Serialize(values[x], hp, unit)]

\* SerializableValue(v) written by the toml serializer: Some(document), or
\* None when it returns an error.  TOML has no null: `unit` is what the
\* serializer does with one ("error", or "skip" for an entry it leaves out)
Serialize(v, hp, unit) ==
    CASE v.t = "Null" -> None
      [] v.t = "Bool" -> Some(TomlBoolean(v.b))
      [] v.t = "Number" ->
            Some(IF "float" \in DOMAIN v
                 THEN TomlFloat(v.n) ELSE TomlInteger(v.n))
      [] v.t = "Str" -> Some(TomlString(v.s))
      [] v.t = "List" ->
            IF \E i \in DOMAIN hp[v.h].items :
                  SerializeAll(hp[v.h].items, hp, unit)[i] = None
            THEN None
            ELSE Some(TomlArray([i \in DOMAIN hp[v.h].items |->
                        SerializeAll(hp[v.h].items, hp, unit)[i][1]]))
      [] v.t = "Map" ->
            LET kept == {k \in DOMAIN hp[v.h].entries :
                            ~(unit = "skip" /\ hp[v.h].entries[k].t = "Null")}
            IN  IF \E k \in kept :
                      SerializeAll(hp[v.h].entries, hp, unit)[k] = None
                THEN None
                ELSE Some(TomlTable([k \in kept |->
                            SerializeAll(hp[v.h].entries, hp, unit)[k][1]]))
      [] OTHER -> None

\* toml.to_string(value): the document, or an error
TomlToString(v, hp, unit) ==
    IF Serialize(v, hp, unit) = None
    THEN [err |-> "toml.to_string", doc |-> None]
    ELSE IF Serialize(v, hp, unit)[1].toml # "Table"
    THEN [err |-> "toml.to_string", doc |-> None]
    ELSE [err |-> "", doc |-> Serialize(v, hp, unit)]

\* toml.from_string(s) for the text of a document
TomlFromString(doc, hp) ==
    [err |-> "", v |-> TomlToKotoValue(doc, hp).v,
     hp |-> TomlToKotoValue(doc, hp).hp]

\* toml.from_string(toml.to_string(v))
TomlRoundTrip(v, hp, unit) ==
    IF TomlToString(v, hp, unit).err # ""
    THEN [err |-> TomlToString(v, hp, unit).err, v |-> Null, hp |-> hp]
    ELSE TomlFromString(TomlToString(v, hp, unit).doc[1], hp)

\* the values of the entries of the maps that are encoded
TomlLeaves == {Null, BoolOf(TRUE), Integer(1), FloatOf(2), Text("a")}

\* maps {a: x, b: y} where x is a leaf, a list [p, q] or a map {k: p}
TomlInputs ==
    { [v |-> MapOf(1),
       hp |-> <<MapCell([k \in {"a", "b"} |->
                           IF k = "b" THEN y
                           ELSE CASE kind = "leaf" -> p
                                  [] kind = "list" -> ListOf(2)
                                  [] kind = "map" -> MapOf(2)], 0),
                IF kind = "map" THEN MapCell([k \in {"k"} |-> p], 0)
                ELSE ListCell(<<p, q>>)>>] :
        kind \in {"leaf", "list", "map"},
        p \in TomlLeaves, q \in TomlLeaves, y \in TomlLeaves }

TomlInit ==
    /\ IdleRuntime
    /\ \E input \in TomlInputs, unit \in {"error", "skip"} :
          /\ heap = input.hp
          /\ subject = [v |-> input.v, unit |-> unit]
    /\ original = Null
    /\ copied = None
    /\ snapshot = Null
    /\ touched = <<>>
    /\ answer = None
    /\ NoVm

\* toml.from_string(toml.to_string(subject.v)): the cells of the decoded
\* value are added to the heap
EncodeAndDecode ==
    /\ answer = None
    /\ answer' = Some([err |-> TomlRoundTrip(subject.v, heap,
                                             subject.unit).err,
                       v |-> TomlRoundTrip(subject.v, heap, subject.unit).v])
    /\ heap' = TomlRoundTrip(subject.v, heap, subject.unit).hp
    /\ UNCHANGED <<original, copied, snapshot, touched>>
    /\ UNCHANGED subject
    /\ UNCHANGED vmVars
    /\ UNCHANGED runtimeVars

SpecToml == TomlInit /\ [][EncodeAndDecode]_vars

----------------------------------------------------------------------------
(* Properties *)

\* C1: after Runtime::run returns Ok the call stack is at depth 0 and the
\* value stack holds no frame and no value, so the next run starts from the
\* stack depth the first one started from.
C1_RunLeavesStacksEmpty ==
    (runs > 0 /\ result.err = "") =>
        /\ Len(call_stack.frames) = 0
        /\ value_stack.frames = <<>>
        /\ value_stack.values = <<>>

ErrorEvents == {i \in DOMAIN log : log[i].e = "err"}

\* C2: when an evaluation returns an error nothing is evaluated, set or
\* called after it (the error is the last event of the run), and run returns
\* that same error; a run that returns Ok raised no error.
C2_ErrorStopsEvaluation ==
    /\ result.err = "" => ErrorEvents = {}
    /\ result.err # "" =>
          /\ ErrorEvents = {Len(log)}
          /\ log[Len(log)].what = result.err

\* an error in the first expression of a block with a later assignment
C2_Witness ==
    /\ runs = 1
    /\ script = <<Id("nope"), Assign("x", Num(2))>>
    /\ result.err = "not found"
    /\ "x" \notin DOMAIN global

\* C3: every call_function on a Function leaves the call stack at the depth
\* it had at entry, whatever the outcome, and no frame is left after a run.
C3_CallKeepsDepth ==
    /\ \A i \in DOMAIN calls : calls[i].d1 = calls[i].d0
    /\ Len(call_stack.frames) = 0

\* a nested call in an argument returned, then a later argument failed
C3_Witness ==
    \E i, j \in DOMAIN calls :
        /\ calls[i].out = "ok"
        /\ calls[j].out = "argument error"
        /\ calls[j].argv # <<>>

\* the argument count the claim expects for the call c
ClaimedArgs(c) ==
    IF Len(c.id) > 1 /\ c.params # <<>> /\ c.params[1] = "self"
    THEN Len(c.params) - 1
    ELSE Len(c.params)

\* C4: a call of a Function with an argument count other than the expected
\* one returns the argument count error, which is raised before any argument
\* is evaluated and before anything is pushed on the call stack (the error
\* is the only event of the call); no other call raises it.
C4_ArityErrorFirst ==
    \A i \in DOMAIN calls :
        LET c == calls[i]
        IN  /\ (c.nargs # ClaimedArgs(c)) <=> (c.out = "argument count")
            /\ c.out = "argument count" =>
                  /\ c.end = c.at + 1
                  /\ log[c.end] = [e |-> "err",
                                   what |-> "Incorrect argument count"]
                  /\ result.err = "Incorrect argument count"
                  /\ c.argv = <<>>

\* f = |x| ... called as f((y = 1), 2): k + 1 arguments, y is never set
C4_Witness ==
    /\ runs = 1
    /\ \E i \in DOMAIN calls :
          /\ calls[i].nargs = Len(calls[i].params) + 1
          /\ calls[i].out = "argument count"
    /\ "y" \notin DOMAIN global

\* the frame the claim expects for the call c: self, then every parameter
\* after self with its argument
ClaimedFrame(c) ==
    <<[name |-> "self", value |-> c.recv[1]]>> \o
    [i \in 1..c.nargs |-> [name |-> c.params[i + 1], value |-> c.argv[i]]]

\* C5: a function whose first parameter is self, called through a map
\* lookup m.f(a1, ..., an), runs with self bound to m and the i-th parameter
\* after self bound to ai.
C5_SelfCallBindsArguments ==
    \A i \in DOMAIN calls :
        LET c == calls[i]
        IN  (/\ Len(c.id) > 1
             /\ c.params # <<>>
             /\ c.params[1] = "self"
             /\ c.out \in {"ok", "body error"})
            => Tail(c.bound) = ClaimedFrame(c)

\* C6: the right operand of `and` is not evaluated when the left one is
\* false, nor the right operand of `or` when the left one is true.
C6_ShortCircuit ==
    \A i \in DOMAIN log :
        ~(log[i].e = "rhs" /\ log[i].what \in {"And:false", "Or:true"})

IsNumberIndex(x, n) == x.index.t = "Number" /\ x.index = VNumber(n)

\* the indexing x addressed the last element of the list
AddressedLast(x) ==
    /\ x.err = ""
    /\ x.before # <<>>
    /\ IF x.op = "read"
       THEN x.value = x.before[Len(x.before)]
       ELSE x.after = [x.before EXCEPT ![Len(x.before)] = x.value]

\* C7: index n of a List of length n is an error that leaves the list as it
\* was; index -1 is either an error or addresses the last element, the same
\* choice for reads and writes.
C7_IndexBounds ==
    /\ \A i \in DOMAIN indexings :
          LET x == indexings[i]
          IN  /\ IsNumberIndex(x, Len(x.before)) =>
                    x.err # "" /\ x.after = x.before
              /\ IsNumberIndex(x, -1) =>
                    \/ x.err # "" /\ x.after = x.before
                    \/ AddressedLast(x)
    /\ \A i, j \in DOMAIN indexings :
          (/\ IsNumberIndex(indexings[i], -1)
           /\ IsNumberIndex(indexings[j], -1)
           /\ indexings[i].before # <<>>
           /\ indexings[j].before # <<>>)
          => ((indexings[i].err = "") <=> (indexings[j].err = ""))

\* C8: after b = a, a write through a (a[0] = 5, m.k = 5) is read through b.
C8_SharedHandles ==
    /\ (script = AliasListScript /\ result.err = "") => result.v = VNumber(5)
    /\ (script = AliasMapScript /\ result.err = "") => result.v = VNumber(5)

IsMap(option) == option # None /\ option[1].t = "Map"

\* C9: m.k = v on a Map m succeeds, after it m.k is v and every other key of
\* m has the value it had; on anything but a Map it is an error that changes
\* neither the global map nor the call stack.  {a: 1, b: 2} with m.b = 5
\* gives m.a + m.b = 6.
C9_MapAssign ==
    /\ \A i \in DOMAIN map_sets :
          LET x == map_sets[i]
              key == x.id[Len(x.id)]
          IN  IF IsMap(x.before)
              THEN /\ x.err = ""
                   /\ IsMap(x.after)
                   /\ DOMAIN x.after[1].m = DOMAIN x.before[1].m \cup {key}
                   /\ x.after[1].m[key] = x.value
                   /\ \A other \in DOMAIN x.before[1].m \ {key} :
                         x.after[1].m[other] = x.before[1].m[other]
                   /\ x.readback = Some(x.value)
              ELSE x.err # "" /\ x.same
    /\ (script = MapScenarioScript /\ result.err = "") =>
          result.v = VNumber(6)

\* the scenario has run: b was replaced, a was kept
C9_Witness ==
    /\ script = MapScenarioScript
    /\ result = [err |-> "", v |-> VNumber(6)]
    /\ \E i \in DOMAIN map_sets :
          /\ IsMap(map_sets[i].before)
          /\ map_sets[i].before[1].m["b"] = VNumber(2)
          /\ map_sets[i].after[1].m["a"] = VNumber(1)

SidesTouched == {touched[i][1] : i \in DOMAIN touched}

\* C10: deep_copy(v) is structurally equal to v, and a write to a List, Map,
\* meta map or captures list reachable from one of them is never observable
\* through the other.
C10_DeepCopyIsolated ==
    copied # None =>
        /\ touched = <<>> => Deref(copied[1], heap) = Deref(original, heap)
        /\ "copy" \notin SidesTouched => Deref(copied[1], heap) = snapshot
        /\ "original" \notin SidesTouched => Deref(original, heap) = snapshot

\* what the claim counts as hashable, for Tuples nested up to depth 2
ClaimedHashable(v) ==
    \/ v.t \in {"Null", "Bool", "Number", "Range", "Str"}
    \/ /\ v.t = "Tuple"
       /\ \A i \in DOMAIN v.elems :
             \/ v.elems[i].t \in {"Null", "Bool", "Number", "Range", "Str"}
             \/ /\ v.elems[i].t = "Tuple"
                /\ \A j \in DOMAIN v.elems[i].elems :
                      v.elems[i].elems[j].t
                          \in {"Null", "Bool", "Number", "Range", "Str"}

\* C11: is_hashable is true exactly for Null, Bool, Number, Range, Str and a
\* Tuple whose elements are all hashable at every depth.
C11_Hashable ==
    answer # None => (answer[1].is_hashable <=> ClaimedHashable(subject))

\* a Tuple with a List at depth 2 was found not hashable
C11_Witness ==
    /\ subject = TupleOf(<<Text("a"), TupleOf(<<Integer(1), ListOf(1)>>)>>)
    /\ answer = Some([is_hashable |-> FALSE, is_callable |-> FALSE])

\* what the claim counts as callable
ClaimedCallable(v) ==
    \/ v.t \in {"SimpleFunction", "Function", "ExternalFunction", "Generator"}
    \/ /\ v.t = "Map"
       /\ heap[v.h].meta # 0
       /\ "Call" \in DOMAIN heap[heap[v.h].meta].entries

\* C12: is_callable is true for SimpleFunction, Function, ExternalFunction,
\* Generator and a Map with a Call meta entry, and false for everything else.
C12_Callable ==
    answer # None => (answer[1].is_callable <=> ClaimedCallable(subject))

\* the cells a method reads or writes on the Value v
Accessed(method, v) ==
    IF method = "visit_builtin_value"
    THEN IF "_builtin_data" \in DOMAIN heap[v.h].entries
         THEN {heap[v.h].entries["_builtin_data"].h} ELSE {}
    ELSE IF method \in {"type_as_string", "is_iterable"}
    THEN IF v.t = "Object" THEN {v.h} ELSE {}
    ELSE IF method = "deep_copy" THEN Reach(v, heap) \cup
                                      (IF v.t = "Object" THEN {v.h} ELSE {})
    ELSE {v.h}

\* C13: a method that accesses a List, Map or Object whose cell is mutably
\* borrowed never panics; it returns an error (an error string from
\* type_as_string, false from is_iterable).
C13_BorrowReported ==
    answer # None =>
        /\ answer[1].outcome # "panic"
        /\ (Accessed(subject.method, subject.v) \cap subject.borrowed # {}) =>
              answer[1].value \in {"Err", "Error: object already borrowed",
                                   "false"}

\* the operand pairs the ordering operators are said to accept
Ordered(a, b) ==
    \/ a.t = "Number" /\ b.t = "Number"
    \/ a.t = "Str" /\ b.t = "Str"
    \/ a.t = "Range" /\ b.t = "Range"
    \/ a.t = "List" /\ b.t = "List"

\* C14: Less, LessOrEqual, Greater and GreaterOrEqual return a Bool for
\* Number-Number, Str-Str, Range-Range and List-List operands and a runtime
\* error for every other pair; they never return a value that is not a Bool.
C14_Ordering ==
    (answer # None /\ subject.op \in OrderingOps) =>
        IF Ordered(subject.a, subject.b)
        THEN answer[1].err = "" /\ answer[1].v.t = "Bool"
        ELSE answer[1].err # ""

\* C15: Divide and Modulo of two Numbers whose right operand is the integer
\* zero return a runtime error, not a Number.
C15_DivideByZero ==
    (/\ answer # None
     /\ subject.op \in {"Divide", "Modulo"}
     /\ subject.a.t = "Number"
     /\ subject.b = VNumber(0)) => answer[1].err # ""

\* the range literal a script about ranges is made of
RangeNode == IF script[1].k = "Range" THEN script[1] ELSE script[1].ranges[1]

\* the exclusive end of the range literal
RangeEnd ==
    IF RangeNode.inclusive THEN RangeNode.hi.n + 1 ELSE RangeNode.hi.n

\* what a script returns that has produced `values`
Produced(values) ==
    CASE Len(values) = 0 -> Empty
      [] Len(values) = 1 -> values[1]
      [] OTHER -> VList(values)

\* C16: expanding or iterating a range start..end with start <= end produces
\* exactly start, start+1, ..., end-1 in ascending order (nothing when
\* end = start, only start when end = start+1), a..=b produces a up to b, and
\* a range whose exclusive end is below its start is a runtime error.
C16_RangeValues ==
    (script # <<>> /\ script \in RangeScripts) =>
        IF RangeNode.lo.n <= RangeEnd
        THEN /\ result.err = ""
             /\ result.v = Produced([i \in 1..(RangeEnd - RangeNode.lo.n) |->
                                       VNumber(RangeNode.lo.n + i - 1)])
        ELSE /\ result.err = "Invalid range"
             /\ result.v = Empty

\* an inclusive range of three values has been iterated
C16_Witness ==
    /\ script = IterateScript(0, 2, TRUE)
    /\ result = [err |-> "", v |-> VList(<<VNumber(0), VNumber(1),
                                          VNumber(2)>>)]

\* the values the arguments of `node` denote
Denoted(node) ==
    (CHOOSE a \in ArgumentLists : a.cargs = node.cargs).values

\* the calls of external closures a run has made
ExternalEvents(l) == {i \in DOMAIN l : l[i].e = "ext"}

\* the calls among the arguments of `node`
NestedCalls(node) == {i \in DOMAIN node.cargs : node.cargs[i].k = "Call"}

\* C17: when call_function on an ExternalFunction returns Ok the closure was
\* called exactly once, with the evaluated arguments in argument order, the
\* frame of the arguments is popped, the returned value is the only value of
\* the call's frame and the frames and call-stack entries from before the
\* call are unchanged; when the closure returns an error the call returns a
\* runtime error and pushes no result.
C17_ExternalCall ==
    [][(script = <<>> /\ script' # <<>> /\ Denoted(script'[1]) # None) =>
        LET node == script'[1]
            argv == Denoted(node)[1]
            r    == ExternalCall(node.id[1], argv)
        IN  IF r.err = ""
            THEN /\ result' = [err |-> "", v |-> r.v]
                 /\ Cardinality(ExternalEvents(log')) =
                        1 + Cardinality(NestedCalls(node))
                 /\ log'[Len(log')] =
                        [e |-> "ext",
                         what |-> [name |-> node.id[1], args |-> argv]]
                 /\ value_stack' =
                        [values |-> Append(value_stack.values, r.v),
                         frames |-> Append(value_stack.frames,
                                           Len(value_stack.values))]
                 /\ Len(call_stack'.frames) = Len(call_stack.frames)
                 /\ \A i \in DOMAIN call_stack.frames :
                       SubSeq(call_stack'.frames[i], 1,
                              Len(call_stack.frames[i])) = call_stack.frames[i]
            ELSE /\ result'.err = r.err
                 /\ Cardinality(ExternalEvents(log')) =
                        1 + Cardinality(NestedCalls(node))
                 /\ value_stack'.values = value_stack.values
                 /\ Len(call_stack'.frames) = Len(call_stack.frames)
                 /\ \A i \in DOMAIN call_stack.frames :
                       SubSeq(call_stack'.frames[i], 1,
                              Len(call_stack.frames[i])) = call_stack.frames[i]
       ]_vars

\* print(1, 2) has been called inside a frame that holds 7 and 8
C17_Witness ==
    /\ script = <<Call(<<"print">>, <<Num(1), Num(2)>>)>>
    /\ result.err = ""
    /\ value_stack = [values |-> <<VNumber(7), VNumber(8), Empty>>,
                      frames |-> <<0, 1, 2>>]
    /\ log[Len(log)] = [e |-> "ext",
                        what |-> [name |-> "print",
                                  args |-> <<VNumber(1), VNumber(2)>>]]

RECURSIVE YieldsFrom(_, _)
\* the values the function reaches Yield with when it runs without stopping
YieldsFrom(vm, fuel) ==
    IF vm.done \/ fuel = 0 THEN <<>>
    ELSE IF Execute(vm).out # None
    THEN <<Execute(vm).out[1]>> \o YieldsFrom(Execute(vm).vm, fuel - 1)
    ELSE YieldsFrom(Execute(vm).vm, fuel - 1)

\* what the k-th next must return
Expected(k) ==
    LET yields == YieldsFrom(SpawnVm(caller_vm.registers[1].chunk,
                                     caller_vm.registers[2]),
                             MaxSteps * (MaxNexts + 1))
    IN  IF k <= Len(yields) THEN Some(yields[k]) ELSE None

\* C18: calling a Generator does not run its body; every next resumes the
\* child Vm where it stopped and returns the next yielded value, so the
\* caller sees exactly the values the body reaches Yield with, in order,
\* then Done on every later call; the child's registers and frames are not
\* the caller's.
C18_GeneratorSequence ==
    /\ [](/\ (generator_vm # None /\ outputs = <<>>) =>
                generator_vm[1].ip = 1 /\ ~generator_vm[1].done
          /\ \A k \in DOMAIN outputs : outputs[k] = Expected(k))
    /\ [][/\ caller_vm'.frames = caller_vm.frames
          /\ caller_vm'.registers[1] = caller_vm.registers[1]
          /\ caller_vm'.registers[2] = caller_vm.registers[2]
          /\ generator_vm # None => caller_vm' = caller_vm]_vars

\* the counting generator has yielded 0 and 1 and then returned Done twice
C18_Witness ==
    /\ caller_vm.registers[1] = GeneratorFn(CountChunk)
    /\ outputs = <<Some(0), Some(1), None, None>>
    /\ generator_vm[1].done

\* C19: with a script path, a script that fails makes the CLI print the
\* error and end with a non-zero exit code and a script that succeeds makes
\* it end with exit code zero; with no script path the CLI starts the REPL
\* and runs no script.
C19_ExitCode ==
    answer # None =>
        IF subject.script = None
        THEN answer[1].repl_started /\ answer[1].scripts_run = 0
        ELSE subject.readable =>
                IF subject.script_result = "Ok"
                THEN answer[1].exit_code = 0
                ELSE /\ answer[1].stderr = <<subject.script_result>>
                     /\ answer[1].exit_code # 0

\* the first argument of a list that is not Bool true, 0 when there is none
FirstNotTrue(args) ==
    IF \A i \in DOMAIN args : args[i] = VBool(TRUE) THEN 0
    ELSE CHOOSE i \in DOMAIN args :
            /\ args[i] # VBool(TRUE)
            /\ \A j \in 1..(i - 1) : args[j] = VBool(TRUE)

\* C20: assert_eq with exactly two arguments returns the empty value when
\* they are equal and an error whose message holds both operands when they
\* differ, and an error for any other number of arguments; assert returns
\* the empty value iff every argument is Bool true and an error at the first
\* argument that is false or not a Bool.
C20_Assertions ==
    answer # None =>
        IF subject.name = "assert_eq"
        THEN IF Len(subject.args) # 2 THEN answer[1].err # ""
             ELSE IF subject.args[1] = subject.args[2]
             THEN answer[1].err = "" /\ answer[1].v = Empty
             ELSE /\ answer[1].err # ""
                  /\ \A i \in 1..2 :
                        \E k \in DOMAIN answer[1].message :
                           answer[1].message[k] = Shown(subject.args[i])
        ELSE IF FirstNotTrue(subject.args) = 0
             THEN answer[1].err = "" /\ answer[1].v = Empty
             ELSE /\ answer[1].err # ""
                  /\ answer[1].at = FirstNotTrue(subject.args)

\* assert_eq(1, 2) has failed with a message that shows 1 and 2
C20_Witness ==
    /\ subject = [name |-> "assert_eq", args |-> <<VNumber(1), VNumber(2)>>]
    /\ answer = Some(AssertEq(<<VNumber(1), VNumber(2)>>))
    /\ answer[1].err = "Assertion failed, not equal"

\* C21: for a Map with String keys and values among Null, Bool, Number,
\* String, List and Map, toml.from_string(toml.to_string(m)) succeeds and
\* returns a Map structurally equal to m.
C21_TomlRoundTrip ==
    answer # None =>
        /\ answer[1].err = ""
        /\ Deref(answer[1].v, heap) = Deref(subject.v, heap)

RECURSIVE Fibonacci(_), FibonacciArgs(_), ArgsOfCalls(_, _)
\* the n-th Fibonacci number
Fibonacci(n) == IF n < 2 THEN n ELSE Fibonacci(n - 1) + Fibonacci(n - 2)

\* the arguments of the calls of f that f(n) makes, in the order in which
\* the calls return: those of f(n-1), those of f(n-2), then n itself
FibonacciArgs(n) ==
    IF n < 2 THEN <<n>>
    ELSE FibonacciArgs(n - 1) \o FibonacciArgs(n - 2) \o <<n>>

\* the arguments of the calls that end a script about Fibonacci numbers
FibArguments == [i \in 1..(Len(script) - 1) |-> script[i + 1].cargs[1].n]

\* the arguments of all calls of f that f(ns[i]); ...; f(ns[k]) make
ArgsOfCalls(ns, i) ==
    IF i > Len(ns) THEN <<>>
    ELSE FibonacciArgs(ns[i]) \o ArgsOfCalls(ns, i + 1)

ConstantArms == {"Null", "Bool", "List", "Range", "Str", "Tuple",
                 "SimpleFunction", "Function", "Generator",
                 "ExternalFunction", "Iterator", "TemporaryTuple",
                 "SequenceBuilder", "StringBuilder"}

\* SimpleFunction and Function count as one variant
SameVariant(v, w) ==
    \/ v.t = w.t
    \/ {v.t, w.t} = {"SimpleFunction", "Function"}

\* what the claim says of a Map and of a Number
TypeOfMapOrNumber(v, name) ==
    /\ v.t = "Map" /\ heap[v.h].meta = 0 => name = "Map"
    /\ v.t = "Map" /\ heap[v.h].meta # 0 =>
          LET meta == heap[heap[v.h].meta].entries
          IN  /\ "Type" \notin DOMAIN meta => name = "Object"
              /\ "Type" \in DOMAIN meta /\ meta["Type"].t = "Str" =>
                    name = meta["Type"].s
              /\ "Type" \in DOMAIN meta /\ meta["Type"].t # "Str" =>
                    name = "Error: expected string for overloaded type"
    /\ v.t = "Number" =>
          name = IF "float" \in DOMAIN v THEN "Float" ELSE "Int"

\* C24, as stated: besides Map and Number every variant, Object included,
\* has a fixed name, the same for two Values exactly when they are of the
\* same variant (SimpleFunction and Function counting as one).
C24_FixedNames ==
    answer # None =>
        /\ TypeOfMapOrNumber(subject.v, answer[1].v)
        /\ subject.v.t \notin {"Map", "Number"}
           /\ subject.w.t \notin {"Map", "Number"} =>
              (answer[1].v = answer[1].w <=> SameVariant(subject.v, subject.w))

\* C24, amended: type_as_string of a Map is the Type entry of its meta map
\* when that is a string, "Object" when the meta map has no Type entry, an
\* error string when the entry is not a string, "Map" without a meta map;
\* of a Number "Int" or "Float"; of an Object the object's own type name, or
\* an error string while the object is borrowed; every other variant has a
\* fixed name, the same for two Values exactly when they are of the same
\* variant (SimpleFunction and Function counting as one).
C24_TypeNames ==
    answer # None =>
        /\ TypeOfMapOrNumber(subject.v, answer[1].v)
        /\ subject.v.t = "Object" =>
              answer[1].v = IF subject.v.h \in subject.borrowed
                            THEN "Error: object already borrowed"
                            ELSE heap[subject.v.h].type
        /\ subject.v.t \in ConstantArms /\ subject.w.t \in ConstantArms =>
              (answer[1].v = answer[1].w <=> SameVariant(subject.v, subject.w))

\* the type of a Map with a Type entry and of a Generator have been asked
C24_Witness ==
    /\ answer # None
    /\ subject.v = MapOf(6)
    /\ subject.w = GeneratorOf(0)
    /\ answer[1] = [v |-> "List", w |-> "Generator"]

\* C25: reading list[min..max] and writing list[min..max] accept the same
\* ranges and reject the others with an error; a read that succeeds returns
\* the elements at positions min..max-1 in order, a write that succeeds sets
\* those positions and no other.
C25_SameRanges ==
    answer # None =>
        LET read  == answer[1].read
            write == answer[1].write
            list  == subject.list
        IN  /\ read.err = "" <=> write.err = ""
            /\ subject.min < 0 \/ subject.max < 0 =>
                  read.err # "" /\ write.err # ""
            /\ read.err = "" =>
                  read.v = VList([i \in 1..(subject.max - subject.min) |->
                                     list[subject.min + i]])
            /\ write.err = "" =>
                  /\ Len(write.val.l) = Len(list)
                  /\ \A i \in 1..Len(list) :
                        write.val.l[i] =
                            IF subject.min < i /\ i <= subject.max
                            THEN VNumber(0) ELSE list[i]

\* the value stack `after` is the value stack `before` with one more frame
OneMoreFrame(before, after) ==
    /\ Len(after.frames) = Len(before.frames) + 1
    /\ SubSeq(after.frames, 1, Len(before.frames)) = before.frames
    /\ after.frames[Len(after.frames)] = Len(before.values)
    /\ Len(after.values) >= Len(before.values)
    /\ SubSeq(after.values, 1, Len(before.values)) = before.values

\* C26: every call of evaluate, evaluate_and_capture, evaluate_and_expand,
\* evaluate_expressions, evaluate_block, run_for_loop (one range or several,
\* one arg or several) or call_function (from the evaluation of its
\* Node::Call) that returns Ok leaves exactly one more frame on the value
\* stack than at entry, holding its results, above unchanged frames; after
\* evaluate_and_capture of an expression that is not a single-value node
\* that frame holds exactly one value.
C26_FrameDiscipline ==
    runs = 1 /\ result.err = "" =>
        /\ OneMoreFrame(subject.vs, value_stack)
        /\ subject.method = "EvaluateAndCapture"
           /\ ~IsSingleValueNode(subject.args[1]) =>
              Len(value_stack.values) = Len(subject.vs.values) + 1

\* the names a function body assigns with the global flag
GlobalFlagged(body) ==
    {body[i].target.name : i \in {j \in DOMAIN body :
        body[j].k = "Assign" /\ body[j].target.tk = "Id"
        /\ body[j].target.global}}

\* the names of the containers a function body writes an element of
ElementWritten(body) ==
    {body[i].target.id[1] : i \in {j \in DOMAIN body :
        body[j].k = "Assign" /\ body[j].target.tk \in {"Index", "Lookup"}}}

\* the global map is as it was before the step, but for the names of `but`
GlobalsKept(but) ==
    /\ DOMAIN global \subseteq DOMAIN ScopeGlobal \cup but
    /\ \A n \in DOMAIN ScopeGlobal \ but :
          n \in DOMAIN global /\ global[n] = ScopeGlobal[n]

\* the positions of the top frame of the call stack cs that bind id
BoundAt(cs, id) ==
    {i \in DOMAIN cs.frames[Len(cs.frames)] :
        cs.frames[Len(cs.frames)][i].name = id}

\* what set_value and get_value do, as the claim says
ScopedAccess ==
    /\ subject.op = "set" /\ subject.cs.frames # <<>> /\ ~subject.flag =>
          /\ global = ScopeGlobal
          /\ Len(call_stack.frames) = Len(subject.cs.frames)
          /\ \A d \in 1..(Len(call_stack.frames) - 1) :
                call_stack.frames[d] = subject.cs.frames[d]
          /\ LET before == subject.cs.frames[Len(subject.cs.frames)]
                 after  == call_stack.frames[Len(call_stack.frames)]
                 new    == [name |-> subject.id, value |-> subject.value]
             IN  IF BoundAt(subject.cs, subject.id) = {}
                 THEN after = Append(before, new)
                 ELSE /\ Len(after) = Len(before)
                      /\ \E i \in BoundAt(subject.cs, subject.id) :
                            after = [before EXCEPT ![i] = new]
    /\ subject.op = "set" /\ (subject.cs.frames = <<>> \/ subject.flag) =>
          /\ call_stack = subject.cs
          /\ subject.id \in DOMAIN global
          /\ global[subject.id] = subject.value
          /\ GlobalsKept({subject.id})
    /\ subject.op = "get" =>
          /\ answer # None
          /\ answer[1] =
                IF subject.cs.frames # <<>>
                   /\ BoundAt(subject.cs, subject.id) # {}
                THEN Some(CsGet([cs |-> subject.cs], subject.id)[1])
                ELSE IF subject.id \in DOMAIN ScopeGlobal
                THEN Some(ScopeGlobal[subject.id])
                ELSE None
          /\ subject.cs.frames # <<>> /\ BoundAt(subject.cs, subject.id) # {}
             => \E i \in BoundAt(subject.cs, subject.id) :
                   answer[1] =
                     Some(subject.cs.frames[Len(subject.cs.frames)][i].value)

\* C27, as stated: set_value without the global flag inside a call writes
\* the current call frame only, at depth 0 or with the flag it writes the
\* global map, get_value inside a call prefers the binding of the current
\* frame; after a call the global map is as before except for the names
\* assigned with the global flag.
C27_GlobalsAfterCall ==
    runs = 1 =>
        /\ ScopedAccess
        /\ subject.op = "call" =>
              /\ call_stack = subject.cs
              /\ GlobalsKept(GlobalFlagged(ScopeFunctions[subject.id].body))

\* C27, amended: ... after a call the global map is as before except for
\* the names assigned with the global flag and for the Lists and Maps of the
\* global map that the call has written an element of.
C27_Scoping ==
    runs = 1 =>
        /\ ScopedAccess
        /\ subject.op = "call" =>
              /\ call_stack = subject.cs
              /\ GlobalsKept(GlobalFlagged(ScopeFunctions[subject.id].body)
                             \cup ElementWritten(
                                      ScopeFunctions[subject.id].body))

\* inside a call, shadow(6) has assigned x = 6 in its own frame and returned
\* it, and the global x is still 5
C27_Witness ==
    /\ runs = 1
    /\ subject.op = "call"
    /\ subject.id = "shadow"
    /\ subject.cs.frames # <<>>
    /\ result = [err |-> "", v |-> VNumber(6)]
    /\ global["x"] = VNumber(5)

\* C28: visit_builtin_value, called while nothing else borrows the value,
\* returns an error and does not panic when the map has no builtin data,
\* when the entry is not a BuiltinValue and when the builtin value is not of
\* the requested type; otherwise it calls f and returns what f returns.
C28_VisitBuiltinValue ==
    answer # None /\ subject.method = "visit_builtin_value"
    /\ subject.borrowed = {} =>
        LET entries == heap[subject.v.h].entries
        IN  IF "_builtin_data" \in DOMAIN entries
               /\ entries["_builtin_data"].t = "BuiltinValue"
               /\ heap[entries["_builtin_data"].h].type = "T"
            THEN answer[1] = [outcome |-> "returned", value |-> "Ok"]
            ELSE answer[1] = [outcome |-> "returned", value |-> "Err"]

\* the closure succeeded: Ok(Empty)
Succeeded(r) == r.err = "" /\ r.v = Empty

\* C29: called with two arguments, exactly one of assert_eq and assert_ne
\* returns the empty value and the other returns an error; called with any
\* other number of arguments both return an error.  The runtime the closures
\* were handed is as it was.
C29_EqOrNe ==
    answer # None /\ "eq" \in DOMAIN answer[1] =>
        LET eq == answer[1].eq
            ne == answer[1].ne
        IN  /\ Len(subject.args) = 2 =>
                /\ Succeeded(eq) # Succeeded(ne)
                /\ ~Succeeded(eq) => eq.err # ""
                /\ ~Succeeded(ne) => ne.err # ""
            /\ Len(subject.args) # 2 => eq.err # "" /\ ne.err # ""
            /\ IdleRuntime

\* both closures were called on (NaN, NaN): assert_ne is the one to succeed
C29_Witness ==
    /\ answer # None
    /\ subject.args = <<VFloat(0, "nan"), VFloat(0, "nan")>>
    /\ answer[1].eq.err # ""
    /\ Succeeded(answer[1].ne)

\* what the loop arguments are bound to for one element: a single argument
\* takes the element; several arguments take the values of a List element
\* one by one (the first takes an element that is no List), the others Empty
BoundTo(args, element) ==
    [k \in DOMAIN args |->
        IF Len(args) = 1 THEN element
        ELSE IF element.t = "List"
        THEN IF k <= Len(element.l) THEN element.l[k] ELSE Empty
        ELSE IF k = 1 THEN element ELSE Empty]

\* what the condition of the loop says for one element
Verdict(loop, element) ==
    LET first == BoundTo(loop.args, element)[1]
    IN  CASE loop.condition \in {"none", "true"} -> "true"
          [] loop.condition = "false" -> "false"
          [] loop.condition = "first" ->
                IF first.t # "Bool" THEN "no bool"
                ELSE IF first.b THEN "true" ELSE "false"
          [] OTHER ->
                IF first.t # "Number" THEN "fails"
                ELSE IF first.n < 2 THEN "true" ELSE "false"

\* the elements the loop gets to: all of them, or those up to the first
\* whose condition is no Bool or cannot be evaluated
Stopped(loop) ==
    {j \in DOMAIN loop.elems :
        Verdict(loop, loop.elems[j]) \notin {"true", "false"}}
Reached(loop) ==
    IF Stopped(loop) = {} THEN Len(loop.elems)
    ELSE (CHOOSE j \in Stopped(loop) : \A k \in Stopped(loop) : j <= k) - 1

\* the elements the body is evaluated for, in iteration order
Chosen(loop) ==
    SelectSeq(SubSeq(loop.elems, 1, Reached(loop)),
              LAMBDA element : Verdict(loop, element) = "true")

\* the calls of print that the body makes, and the values it gives
BodyCalls(loop) ==
    [j \in DOMAIN Chosen(loop) |->
        [e |-> "ext",
         what |-> [name |-> "print",
                   args |-> BoundTo(loop.args, Chosen(loop)[j])]]]
BodyResults(loop) ==
    [j \in DOMAIN Chosen(loop) |->
        IF Len(loop.args) = 1 THEN Chosen(loop)[j]
        ELSE VList(BoundTo(loop.args, Chosen(loop)[j]))]

\* C30: a for loop over one range evaluates its body once, with the
\* arguments bound, for each element of the List or Range whose condition
\* is true, in iteration order, and collects the results in that order;
\* several arguments take the values of a List element one by one and the
\* surplus arguments Empty; a condition that is no Bool and an iterable
\* that is neither List nor Range end the loop with an error.
C30_SingleRangeLoop ==
    runs = 1 /\ "loop" \in DOMAIN subject =>
        LET loop == subject.loop
            printed == SelectSeq(log, LAMBDA entry : entry.e = "ext")
            collected == SubSeq(value_stack.values,
                                Len(subject.vs.values) + 1,
                                Len(value_stack.values))
        IN  /\ printed = BodyCalls(loop)
            /\ ~loop.iterable =>
                 result.err = "Expected iterable range in for statement"
            /\ loop.iterable /\ Stopped(loop) = {} =>
                 /\ result.err = ""
                 /\ collected = BodyResults(loop)
                 /\ value_stack.frames =
                        Append(subject.vs.frames, Len(subject.vs.values))
            /\ loop.iterable /\ Stopped(loop) # {} =>
                 IF Verdict(loop, loop.elems[Reached(loop) + 1]) = "no bool"
                 THEN result.err = "Expected bool in for statement condition"
                 ELSE result.err # ""

\* the loop `for a, b in [[1, 2], [3], 4, [5, 6, 7]] if a < 2` has run: its
\* body was evaluated for [1, 2] alone, and the last element left b = 6
C30_Witness ==
    /\ runs = 1
    /\ "loop" \in DOMAIN subject
    /\ subject.loop.args = <<"a", "b">>
    /\ subject.loop.condition = "less"
    /\ Len(subject.loop.elems) = 4
    /\ subject.loop.elems[3] = VNumber(4)
    /\ subject.vs.values = <<>>
    /\ result.err = ""
    /\ value_stack.values = <<VList(<<VNumber(1), VNumber(2)>>)>>
    /\ global["b"] = VNumber(6)

====
